---- MODULE Spec2Model ----
(***************************************************************************)
(* Elysium music player (src/components/Icons.tsx, first App component,    *)
(* src/utils/stats.ts, src/utils/db.ts):                                   *)
(* the playback-queue navigator (changeIndex), the shuffle generator       *)
(* effect, the media-element event handlers, the session tracker, the      *)
(* carousel (performSongChange / onCarouselTransitionEnd / layout reset)   *)
(* and the touch gestures of the full-screen player.                       *)
(*                                                                         *)
(* Conventions.  Track indices and permutation positions are 0-based as in *)
(* the source; TLA+ sequences are 1-based, so element p of a JS array s is *)
(* s[p+1] (operator At).  A handler is one action that also contains the   *)
(* React re-render it causes and the effects that re-render runs (shuffle  *)
(* generator, carousel layout reset, <audio src> reload, isPlaying sync).  *)
(* Math.random() is the rational rnd/RandRes with rnd in 0..RandRes-1.     *)
(* The media element follows the HTML standard: reaching the end sets      *)
(* paused and queues 'pause' then 'ended'; a change of src runs the load   *)
(* algorithm (paused, position 0, queued media events removed).            *)
(* The session tracker (flushPlaySession, handlePlay, the Audio Logic      *)
(* effect's cleanup, handleBeforeUnload) runs on a wall clock counted in   *)
(* ticks of TickMs milliseconds; log durations are held in milliseconds.   *)
(* Touch gestures are modelled by the finger's offset from the touch-start *)
(* point, in CSS pixels, with one carousel slot containerWidth pixels      *)
(* wide.  A CSS transition of the track starts when its transform changes  *)
(* while the transition class is set (isAnimating) and the inline          *)
(* transition is not 'none'; an inline transition of 'none' cancels it.    *)
(* A track is its id <<selection, position>>, with a third component once  *)
(* its metadata has been refined; the record store is the list of its      *)
(* records.  A play() the platform rejects settles within the step that    *)
(* issued it.  calculateStats (src/utils/stats.ts) is computed on logs     *)
(* whose names are strings, so that its string keys are what the code      *)
(* builds.  A record store is held as what getAll() returns, its records   *)
(* in the order of their keys; a write to the record store or to the saved *)
(* history can fail, and the page can be unloaded and the app launched     *)
(* again on what was saved.  A timer callback can run in the frame of the  *)
(* handler before it, ahead of the style change that starts a transition.  *)
(* The long-press image viewer and the sheet's own transition are outside  *)
(* the state modelled here.                                                *)
(***************************************************************************)
EXTENDS Integers, Sequences, FiniteSets, TLC

\* ---------------------------------------------------------------- bounds
MaxTracks == 3
PlayerTracks == 2
RandRes == 4
MaxPos == 1
MaxEvents == 2
MaxSelections == 1
SessionTracks == 2
MaxNow == 3
CarouselTracks == 2
MaxTimers == 1
MaxLogs == 2
MaxSeek == 4
MaxStatLogs == 3
MaxDuration == 2

\* ------------------------------------------------------- program constants
SEQUENCE == "SEQUENCE"
REPEAT_ALL == "REPEAT_ALL"
REPEAT_ONE == "REPEAT_ONE"
SHUFFLE == "SHUFFLE"

\* checkMetadata looks at the first 5 stored tracks (line 507)
MetadataProbe == 5

\* Object.values(PlaybackMode), in declaration order
PlaybackMode == <<SEQUENCE, REPEAT_ALL, REPEAT_ONE, SHUFFLE>>

ModeSet == {PlaybackMode[k] : k \in 1..Len(PlaybackMode)}

Directions == {"next", "prev"}

NoSong == <<>>

None == [kind |-> "none"]

\* milliseconds in a second: playedSeconds = (now - start) / 1000 (line 651)
Second == 1000

\* milliseconds of one tick of the clock read by Date.now() (lines 649, 660)
TickMs == 1000

\* seconds of playback per step of the media element's position
PosSeconds == 1

\* handlePrevAnimated: currentTime > 3 restarts the track (line 928)
PrevRestartSeconds == 3

\* albumArtContainerRef.clientWidth / 3, in pixels
ContainerWidth == 300

\* handleTouchEnd: verticalThreshold = 150
VerticalThreshold == 150

\* finger offsets from the touch-start point, in pixels: around the 35%
\* threshold of 105, and an offset whose damped value is one slot width
DragX == {-500, -110, -105, 0, 105, 110}

\* no vertical offset, and downward ones under and over verticalThreshold
DragY == {0, 120, 160}

\* ------------------------------------------------------------ JS helpers
\* element p (0-based) of a JS array
At(s, p) == s[p + 1]

\* Array.prototype.indexOf: first 0-based position of x, or -1
IndexOf(s, x) ==
  IF \E k \in 1..Len(s) : s[k] = x
  THEN (CHOOSE k \in 1..Len(s) : s[k] = x /\ \A j \in 1..(k - 1) : s[j] # x) - 1
  ELSE -1

\* the JS remainder operator (sign of the dividend)
JsMod(a, b) == IF a >= 0 THEN a % b ELSE 0 - ((0 - a) % b)

\* Math.floor(Math.random() * k) with Math.random() = rnd / RandRes
RandomIndex(rnd, k) == (rnd * k) \div RandRes

\* [s[a], s[b]] = [s[b], s[a]] on 0-based positions
Swap(s, a, b) ==
  [k \in 1..Len(s) |-> IF k = a + 1 THEN s[b + 1] ELSE IF k = b + 1 THEN s[a + 1] ELSE s[k]]

\* Array.from({length: n}, (_, i) => i)
Identity(n) == [k \in 1..n |-> k - 1]

\* the set of draw vectors the generator loop consumes: one draw per i in 1..n-1
DrawSeqs(n) == [1..(n - 1) -> 0..(RandRes - 1)]

\* a generator that draws j below i (never j = i)
RECURSIVE ShuffleLoop_BelowOnly(_, _, _)
ShuffleLoop_BelowOnly(indices, i, draws) ==
  IF i <= 0 THEN indices
  ELSE ShuffleLoop_BelowOnly(Swap(indices, i, RandomIndex(draws[i], i)), i - 1, draws)

\* the generator loop from position i down to 1
RECURSIVE ShuffleLoop(_, _, _)
ShuffleLoop(indices, i, draws) ==
  IF i <= 0 THEN indices
  ELSE ShuffleLoop(Swap(indices, i, RandomIndex(draws[i], i + 1)), i - 1, draws)

\* a generator whose swap only copies indices[j] into indices[i]
RECURSIVE CopyLoop(_, _, _)
CopyLoop(indices, i, draws) ==
  IF i <= 0 THEN indices
  ELSE CopyLoop([indices EXCEPT ![i + 1] = indices[RandomIndex(draws[i], i + 1) + 1]],
                i - 1, draws)

Regenerate_Copy(n, draws) == CopyLoop(Identity(n), n - 1, draws)

\* the Shuffle Generator: Fisher-Yates over 0..n-1
Regenerate(n, draws) == ShuffleLoop(Identity(n), n - 1, draws)

\* s contains each of 0..n-1 exactly once
IsPermutation(s, n) ==
  /\ Len(s) = n
  /\ \A v \in 0..(n - 1) : Cardinality({k \in 1..n : s[k] = v}) = 1

PermutationsOf(n) == {s \in [1..n -> 0..(n - 1)] : IsPermutation(s, n)}

\* ------------------------------------------------------------- navigator
FallbackIndex_Wide(rnd, n) == RandomIndex(rnd, n + 1)

\* line 821: Math.floor(Math.random() * songs.length)
FallbackIndex(rnd, n) == RandomIndex(rnd, n)

IsRepeatOneAuto_WrongMode(m, auto) == m = REPEAT_ALL /\ auto

IsRepeatOneAuto_AnyCall(m, auto) == m = REPEAT_ONE

\* line 810: mode === REPEAT_ONE && auto
IsRepeatOneAuto(m, auto) == m = REPEAT_ONE /\ auto

ShuffleStep_ForwardOnly(prevIndex, direction, n, perm, rnd) ==
  LET currentPos == IndexOf(perm, prevIndex) IN
  IF currentPos = -1 THEN FallbackIndex(rnd, n)
  ELSE At(perm, JsMod(currentPos + 1, Len(perm)))

\* lines 818-830: the SHUFFLE branch
ShuffleStep(prevIndex, direction, n, perm, rnd) ==
  LET currentPos == IndexOf(perm, prevIndex) IN
  IF currentPos = -1 THEN FallbackIndex(rnd, n)
  ELSE LET newPos == IF direction = "next"
                     THEN JsMod(currentPos + 1, Len(perm))
                     ELSE JsMod(currentPos - 1 + Len(perm), Len(perm))
       IN At(perm, newPos)

LinearStep_StopManual(prevIndex, direction, auto, n, m) ==
  IF direction = "next"
  THEN IF prevIndex + 1 >= n
       THEN IF m = SEQUENCE
            THEN [index |-> prevIndex, stop |-> TRUE]
            ELSE [index |-> 0, stop |-> FALSE]
       ELSE [index |-> prevIndex + 1, stop |-> FALSE]
  ELSE IF prevIndex - 1 < 0
       THEN [index |-> n - 1, stop |-> FALSE]
       ELSE [index |-> prevIndex - 1, stop |-> FALSE]

LinearStep_StopAnyMode(prevIndex, direction, auto, n, m) ==
  IF direction = "next"
  THEN IF prevIndex + 1 >= n
       THEN IF auto
            THEN [index |-> prevIndex, stop |-> TRUE]
            ELSE [index |-> 0, stop |-> FALSE]
       ELSE [index |-> prevIndex + 1, stop |-> FALSE]
  ELSE IF prevIndex - 1 < 0
       THEN [index |-> n - 1, stop |-> FALSE]
       ELSE [index |-> prevIndex - 1, stop |-> FALSE]

LinearStep_NoBackWrap(prevIndex, direction, auto, n, m) ==
  IF direction = "next"
  THEN IF prevIndex + 1 >= n
       THEN IF m = SEQUENCE /\ auto
            THEN [index |-> prevIndex, stop |-> TRUE]
            ELSE [index |-> 0, stop |-> FALSE]
       ELSE [index |-> prevIndex + 1, stop |-> FALSE]
  ELSE [index |-> prevIndex - 1, stop |-> FALSE]

\* lines 832-846: SEQUENCE / REPEAT_ALL / manual REPEAT_ONE
\* stop = setIsPlaying(false) was called (line 837)
LinearStep(prevIndex, direction, auto, n, m) ==
  IF direction = "next"
  THEN IF prevIndex + 1 >= n
       THEN IF m = SEQUENCE /\ auto
            THEN [index |-> prevIndex, stop |-> TRUE]
            ELSE [index |-> 0, stop |-> FALSE]
       ELSE [index |-> prevIndex + 1, stop |-> FALSE]
  ELSE IF prevIndex - 1 < 0
       THEN [index |-> n - 1, stop |-> FALSE]
       ELSE [index |-> prevIndex - 1, stop |-> FALSE]

\* lines 807-847: the updater passed to setCurrentSongIndex.
\* index = the returned index, stop = setIsPlaying(false) called,
\* restart = audio.currentTime = 0; audio.play() called.
ChangeIndexResult(prevIndex, direction, auto, n, m, perm, rnd) ==
  IF n = 0
  THEN [index |-> -1, stop |-> FALSE, restart |-> FALSE]
  ELSE IF IsRepeatOneAuto(m, auto)
  THEN [index |-> prevIndex, stop |-> FALSE, restart |-> TRUE]
  ELSE IF m = SHUFFLE
  THEN [index |-> ShuffleStep(prevIndex, direction, n, perm, rnd),
        stop |-> FALSE, restart |-> FALSE]
  ELSE LET r == LinearStep(prevIndex, direction, auto, n, m)
       IN [index |-> r.index, stop |-> r.stop, restart |-> FALSE]

\* toggleMode's next mode (lines 973-975); the mutant stays at the last
\* mode
NextMode_NoWrap(m) ==
  LET currentIndex == IndexOf(PlaybackMode, m)
  IN IF currentIndex + 1 < Len(PlaybackMode) THEN At(PlaybackMode, currentIndex + 1)
     ELSE m

NextMode(m) ==
  LET currentIndex == IndexOf(PlaybackMode, m)
  IN At(PlaybackMode, JsMod(currentIndex + 1, Len(PlaybackMode)))

\* ------------------------------------------------------------------ state
VARIABLES
  songs,                \* useState<Song[]>: the track list, as the sequence of track ids
  currentSongIndex,     \* useState<number>
  mode,                 \* useState<PlaybackMode>
  shuffledIndices,      \* useState<number[]>
  isPlaying,            \* useState(false)
  currentTime,          \* useState(0): the position last reported by 'timeupdate'
  audioPaused,          \* audioRef.current.paused
  audioTime,            \* audioRef.current.currentTime, in steps of PosSeconds
  audioEvents,          \* media-element events queued and not yet dispatched
  playAllowed,          \* the platform lets audio.play() start playback
  isSwitchingRef,       \* useRef(false)
  pendingCarouselReset, \* useRef<'next' | 'prev' | null>
  layoutResetNeededRef, \* useRef(false)
  isAnimating,          \* useState(false)
  trackX,               \* albumArtContainerRef style.transform translateX, in pixels
  cardScale,            \* prev/current/next card style.transform scale, in 1/10000
  slideRunning,         \* a CSS transition of the track transform is in flight
  currentTranslateX,    \* useRef(0)
  trackTransitionNone,  \* albumArtContainerRef style.transition is 'none'
  currentTranslateY,    \* useRef(0)
  sheetY,               \* fullPlayerRef drag offset written by the touch handlers
  isFullPlayerOpen,     \* useState(false)
  touching,             \* a finger is down on the full player
  snapTimers,           \* setTimeout(() => setIsAnimating(false), 300) not yet fired
  now,                  \* Date.now(), in ticks
  lastPlayStartRef,     \* useRef<number>(0)
  history,              \* useState<PlaybackLog[]>(loadHistory)
  savedHistory,         \* localStorage 'md3_music_history'
  historyStoreFails,    \* localStorage.setItem throws for the history (quota)
  effectIsPlaying,      \* isPlaying as closed over by the Audio Logic effect
  unloaded,             \* the page has been unloaded
  stored,               \* the record store's track list
  loaded,               \* init() has resolved loadSongsFromDB
  selections,           \* number of folder selections so far (makes ids fresh)
  metaTimer,            \* storedSongs held by init()'s setTimeout(checkMetadata, 2000)
  metaQueues,           \* the tracks still to parse of each processMetadataQueue run
  statLogs,             \* the logs the statistics panel hands to calculateStats
  stats,                \* the StatsResult the panel shows, if computed
  request,              \* history: the performSongChange call of the slide in flight
  lastNav,              \* history: the changeIndex call made by the last step, if any
  lastShuffle,          \* history: the shuffle generator run of the last step, if any
  lastPlay,             \* history: the outcome of the audio.play() of the last step, if any
  lastFlush,            \* history: the caller of the session-tracker call of the last step
  lastGesture,          \* history: the touch event or request handled by the last step
  segmentSong,          \* history: the track that was current when the open segment began
  lastPlayEvent,        \* history: Date.now() at the last 'play' event (at mount before the first)
  toggleRun,            \* history: the modes before each of the last direct toggles in a row
  navSteps              \* history: changeIndex calls made for the slide last committed

vars == <<songs, currentSongIndex, mode, shuffledIndices, isPlaying, currentTime,
          audioPaused, audioTime, audioEvents, playAllowed,
          isSwitchingRef, pendingCarouselReset, layoutResetNeededRef, isAnimating,
          trackX, cardScale, slideRunning, currentTranslateX, trackTransitionNone,
          currentTranslateY, sheetY, isFullPlayerOpen, touching, snapTimers,
          now, lastPlayStartRef, history, savedHistory, historyStoreFails,
          effectIsPlaying, unloaded,
          stored, loaded, selections, metaTimer, metaQueues, statLogs, stats,
          request, lastNav, lastShuffle, lastPlay, lastFlush, lastGesture, segmentSong,
          lastPlayEvent, toggleRun, navSteps>>

\* ids of the tracks of one selection (file name, Date.now(), Math.random())
NewSongs(sel, k) == [i \in 1..k |-> <<sel, i>>]

\* song.id (and song.url, created with it): what a track keeps when its
\* metadata is refined
IdOf(song) == <<song[1], song[2]>>

\* { ...song, name: meta.title || song.name, artist, coverUrl } (lines 541-546)
Refined(song) == <<song[1], song[2], "meta">>

\* song.artist is set (line 537)
IsRefined(song) == Len(song) = 3

\* songs[index]?.url : the src of the <audio> element (line 1245)
SrcOf(list, index) ==
  IF index >= 0 /\ index < Len(list) THEN IdOf(list[index + 1]) ELSE NoSong

RestScale == [prev |-> 8500, current |-> 10000, next |-> 8500]

Audio ==
  [paused |-> audioPaused, time |-> audioTime, events |-> audioEvents,
   shown |-> currentTime, allowed |-> playAllowed]

Carousel ==
  [switching |-> isSwitchingRef, pending |-> pendingCarouselReset,
   resetNeeded |-> layoutResetNeededRef, animating |-> isAnimating,
   x |-> trackX, scale |-> cardScale, running |-> slideRunning,
   translateX |-> currentTranslateX, transitionNone |-> trackTransitionNone,
   translateY |-> currentTranslateY, sheet |-> sheetY, open |-> isFullPlayerOpen,
   touching |-> touching, timers |-> snapTimers, steps |-> navSteps]

Session ==
  [start |-> lastPlayStartRef, history |-> history, segment |-> segmentSong,
   played |-> lastPlayEvent, flush |-> None]

\* audio.play(): a paused element starts and queues 'play'
PlayCmd(a) ==
  IF a.paused
  THEN [a EXCEPT !.paused = FALSE, !.events = Append(a.events, "play")]
  ELSE a

\* audio.pause(): a playing element pauses and queues 'pause'
PauseCmd(a) ==
  IF a.paused
  THEN a
  ELSE [a EXCEPT !.paused = TRUE, !.events = Append(a.events, "pause")]

\* the media element's load algorithm, run when the src attribute changes
LoadCmd(a) == [a EXCEPT !.paused = TRUE, !.time = 0, !.events = <<>>]

\* the <audio src> update of the commit
SrcAfterRender(songs2, idx2, a) ==
  IF SrcOf(songs2, idx2) # SrcOf(songs, currentSongIndex) THEN LoadCmd(a) ELSE a

\* the isPlaying sync effect (lines 708-721, deps [isPlaying, currentSongIndex])
\* runs and calls audio.play()
PlayIssued(songs2, idx2, playing2, a) ==
  /\ playing2 # isPlaying \/ idx2 # currentSongIndex
  /\ idx2 # -1 /\ SrcOf(songs2, idx2) # NoSong
  /\ playing2 /\ SrcAfterRender(songs2, idx2, a).paused

\* the play() promise is rejected: the catch of lines 714-717 runs
PlayRejected(songs2, idx2, playing2, a) ==
  PlayIssued(songs2, idx2, playing2, a) /\ ~a.allowed

\* the <audio src> update of the commit, then the isPlaying sync effect;
\* a play() the platform rejects leaves the element as it was
AudioAfterRender(songs2, idx2, playing2, a) ==
  LET src2 == SrcOf(songs2, idx2)
      a1 == SrcAfterRender(songs2, idx2, a)
      runs == playing2 # isPlaying \/ idx2 # currentSongIndex
  IN IF ~runs \/ idx2 = -1 \/ src2 = NoSong THEN a1
     ELSE IF playing2 /\ a1.paused THEN (IF a.allowed THEN PlayCmd(a1) ELSE a1)
     ELSE IF ~playing2 /\ ~a1.paused THEN PauseCmd(a1)
     ELSE a1

\* ------------------------------------------------------- session tracker
\* addLog(history, song, duration) (stats.ts lines 27-41), duration in ms;
\* the mutant keeps only the new entry
AddLog_Replace(h, song, durationMs) ==
  IF durationMs < Second THEN h
  ELSE <<[songId |-> song, timestamp |-> now, duration |-> durationMs]>>

AddLog(h, song, durationMs) ==
  IF durationMs < Second THEN h
  ELSE Append(h, [songId |-> song, timestamp |-> now, duration |-> durationMs])

\* saveHistory (stats.ts lines 18-24): the new history replaces the saved one
\* unless localStorage.setItem throws, which is caught and logged
SaveHistory(saved, h, fails) == IF fails THEN saved ELSE h

\* addLog calls saveHistory when it appends an entry (stats.ts lines 27, 39)
SavedAfter(h) ==
  IF h # history THEN SaveHistory(savedHistory, h, historyStoreFails)
  ELSE savedHistory

\* playedSeconds > 1 (line 652), on milliseconds
LongEnough(playedMs) == playedMs > Second

\* flushPlaySession (lines 648-657), called by `by` from a closure over the
\* track list `list` and the index `index`
FlushSegment(s, by, list, index) ==
  LET song == SrcOf(list, index)
      playedMs == (now - s.start) * TickMs
      logs == s.start > 0 /\ index # -1 /\ song # NoSong
              /\ LongEnough(playedMs)
  IN [s EXCEPT !.start = 0,
                !.history = IF logs THEN AddLog(s.history, song, playedMs)
                            ELSE s.history,
                !.segment = NoSong,
                !.flush = [kind |-> by]]

\* The handlers and the cleanup of the Audio Logic effect close over the
\* songs and currentSongIndex of the render the effect last ran in: the effect
\* re-runs whenever they change, so they are those of the state the call is
\* made in.
FlushPlaySession(s, by) == FlushSegment(s, by, songs, currentSongIndex)

\* handlePlay line 660: lastPlayStartRef.current = Date.now()
StartSegment(s) ==
  [s EXCEPT !.start = now, !.segment = SrcOf(songs, currentSongIndex),
            !.played = now, !.flush = [kind |-> "play"]]

\* the deps of the Audio Logic effect (line 706) differ from the last render
EffectReruns(songs2, idx2, mode2) ==
  idx2 # currentSongIndex \/ mode2 # mode \/ songs2 # songs

\* the cleanup of the Audio Logic effect (lines 697-705); the mutant runs it
\* with the track list and index of the new render
SessionAfterRender_NewRender(songs2, idx2, mode2, s) ==
  IF EffectReruns(songs2, idx2, mode2) /\ s.start > 0
  THEN FlushSegment(s, "cleanup", songs2, idx2)
  ELSE s

SessionAfterRender(songs2, idx2, mode2, s) ==
  IF EffectReruns(songs2, idx2, mode2) /\ s.start > 0
  THEN FlushPlaySession(s, "cleanup")
  ELSE s

\* ---------------------------------------------------------------- carousel
\* the carousel layout reset (useLayoutEffect, lines 853-887, deps
\* [currentSongIndex])
LayoutEffectRuns(idx2) == idx2 # currentSongIndex

LayoutAfterRender(idx2, c) ==
  IF LayoutEffectRuns(idx2) /\ c.resetNeeded
  THEN [c EXCEPT !.switching = FALSE, !.pending = "none", !.resetNeeded = FALSE,
                 !.animating = FALSE, !.x = 0, !.scale = RestScale,
                 !.running = FALSE, !.translateX = 0, !.transitionNone = FALSE]
  ELSE c

\* the open/close effect (lines 724-740, deps [isFullPlayerOpen])
OpenCloseAfterRender(c) ==
  IF c.open # isFullPlayerOpen
  THEN [c EXCEPT !.sheet = 0, !.translateY = 0, !.x = 0, !.translateX = 0,
                 !.scale = RestScale]
  ELSE c

\* the style recalculation after the render: a transition of the track
\* transform starts, goes on or is cancelled (class at line 1588)
TransitionAfterRender(c) ==
  IF c.transitionNone THEN FALSE
  ELSE IF c.x # trackX THEN c.animating
  ELSE c.running

\* the Shuffle Generator effect runs and stores a permutation (lines 561-570):
\* its deps [mode, songs.length] differ from the last render and the guard of
\* line 562 holds; the mutant has deps [mode] only
GeneratorRuns_ModeOnly(mode2, n2) == mode2 # mode /\ mode2 = SHUFFLE /\ n2 > 0

GeneratorRuns(mode2, n2) ==
  (mode2 # mode \/ n2 # Len(songs)) /\ mode2 = SHUFFLE /\ n2 > 0

\* The re-render after a handler and the effects it runs.  songs2, idx2, mode2,
\* playing2 are the React state the handler set; a, c and s are the media
\* element, the carousel and the session tracker as the handler left them.
Commit(songs2, idx2, mode2, playing2, a, c, s) ==
  LET a2 == AudioAfterRender(songs2, idx2, playing2, a)
      c2 == OpenCloseAfterRender(LayoutAfterRender(idx2, c))
      s2 == SessionAfterRender(songs2, idx2, mode2, s)
      n2 == Len(songs2)
  IN /\ ~unloaded
     /\ Len(a2.events) <= MaxEvents
     /\ songs' = songs2
     /\ currentSongIndex' = idx2
     /\ mode' = mode2
     \* a rejected play() ends in setIsPlaying(false) (line 716) and a second
     \* render, whose effects find nothing to do
     /\ isPlaying' = IF PlayRejected(songs2, idx2, playing2, a) THEN FALSE ELSE playing2
     /\ lastPlay' = IF PlayIssued(songs2, idx2, playing2, a)
                    THEN [kind |-> IF a.allowed THEN "accepted" ELSE "rejected"]
                    ELSE None
     /\ currentTime' = a2.shown
     /\ audioPaused' = a2.paused
     /\ audioTime' = a2.time
     /\ audioEvents' = a2.events
     /\ isSwitchingRef' = c2.switching
     /\ pendingCarouselReset' = c2.pending
     /\ layoutResetNeededRef' = c2.resetNeeded
     /\ isAnimating' = c2.animating
     /\ trackX' = c2.x
     /\ cardScale' = c2.scale
     /\ slideRunning' = TransitionAfterRender(c2)
     /\ currentTranslateX' = c2.translateX
     /\ trackTransitionNone' = c2.transitionNone
     /\ currentTranslateY' = c2.translateY
     /\ sheetY' = c2.sheet
     /\ isFullPlayerOpen' = c2.open
     /\ touching' = c2.touching
     /\ snapTimers' = c2.timers
     /\ navSteps' = c2.steps
     /\ lastPlayStartRef' = s2.start
     /\ history' = s2.history
     /\ savedHistory' = SavedAfter(s2.history)
     /\ segmentSong' = s2.segment
     /\ lastPlayEvent' = s2.played
     /\ lastFlush' = s2.flush
     /\ effectIsPlaying' = IF EffectReruns(songs2, idx2, mode2) THEN playing2
                           ELSE effectIsPlaying
     /\ UNCHANGED <<now, unloaded, playAllowed, statLogs, stats, historyStoreFails>>
     \* Shuffle Generator effect (lines 561-570, deps [mode, songs.length])
     /\ IF GeneratorRuns(mode2, n2)
        THEN \E draws \in DrawSeqs(n2) :
               /\ shuffledIndices' = Regenerate(n2, draws)
               /\ lastShuffle' = [kind |-> "run", n |-> n2,
                                  result |-> Regenerate(n2, draws)]
        ELSE /\ UNCHANGED shuffledIndices
             /\ lastShuffle' = None

\* the history variables a step writes besides lastNav
Notes(gesture, run) ==
  /\ lastGesture' = gesture
  /\ toggleRun' = run

Quiet ==
  /\ lastNav' = None
  /\ Notes(None, <<>>)

\* changeIndex(direction, auto) (lines 806-848) and the render that follows.
\* c is the carousel as the caller left it, req the request that led to the call.
ChangeIndex(direction, auto, rnd, a, c, req) ==
  LET r == ChangeIndexResult(currentSongIndex, direction, auto, Len(songs), mode,
                             shuffledIndices, rnd)
      playing2 == IF r.stop THEN FALSE ELSE isPlaying
      a1 == IF r.restart THEN PlayCmd([a EXCEPT !.time = 0]) ELSE a
  IN /\ Commit(songs, r.index, mode, playing2, a1, c, Session)
     /\ lastNav' = [kind |-> "call", dir |-> direction, auto |-> auto,
                    from |-> currentSongIndex,
                    stop |-> r.stop, restart |-> r.restart, req |-> req,
                    pre |-> [playing |-> isPlaying, audio |-> a]]
     /\ Notes(None, <<>>)

\* ---------------------------------------------------------- initial values
\* the carousel, the sheet and the gesture refs after mount (lines 442-468)
CarouselAtRest ==
  /\ isSwitchingRef = FALSE
  /\ pendingCarouselReset = "none"
  /\ layoutResetNeededRef = FALSE
  /\ isAnimating = FALSE
  /\ trackX = 0
  /\ cardScale = RestScale
  /\ slideRunning = FALSE
  /\ currentTranslateX = 0
  /\ trackTransitionNone = FALSE
  /\ currentTranslateY = 0
  /\ sheetY = 0
  /\ touching = FALSE
  /\ snapTimers = 0
  /\ navSteps = 0

\* the session tracker of a player whose media element is at rest: a segment
\* is open, for the current track, exactly when the element plays
SessionAtRest ==
  /\ now = 1
  /\ lastPlayStartRef = IF audioPaused THEN 0 ELSE now
  /\ segmentSong = IF audioPaused THEN NoSong ELSE SrcOf(songs, currentSongIndex)
  /\ effectIsPlaying = isPlaying
  /\ unloaded = FALSE
  /\ lastPlayEvent = now

NoNotes ==
  /\ request = None
  /\ lastNav = None
  /\ lastShuffle = None
  /\ lastPlay = None
  /\ lastFlush = None
  /\ lastGesture = None
  /\ toggleRun = <<>>

\* ------------------------------------------------ navigator harness (NavSpec)
\* Any state the running player can hand to changeIndex: the generator effect
\* has run for the current mode and track count, the index is a valid offset,
\* the none sentinel, or (before the list is loaded) a saved index, and the
\* media element is at rest (no event queued, paused unless isPlaying).
NavInit ==
  /\ \E n \in 0..MaxTracks : songs = NewSongs(0, n)
  /\ currentSongIndex \in
       IF Len(songs) = 0 THEN -1..(MaxTracks - 1) ELSE -1..(Len(songs) - 1)
  /\ mode \in ModeSet
  /\ shuffledIndices \in
       IF Len(songs) = 0 THEN {<<>>}
       ELSE IF mode = SHUFFLE THEN PermutationsOf(Len(songs))
       ELSE UNION {PermutationsOf(k) : k \in 0..MaxTracks}
  /\ isPlaying \in BOOLEAN
  /\ IF SrcOf(songs, currentSongIndex) = NoSong
     THEN audioPaused = TRUE /\ audioTime = 0
     ELSE audioPaused = ~isPlaying /\ audioTime \in 0..MaxPos
  /\ currentTime = audioTime
  /\ audioEvents = <<>>
  /\ playAllowed = TRUE
  /\ CarouselAtRest
  /\ isFullPlayerOpen = FALSE
  /\ SessionAtRest
  /\ history = <<>>
  /\ savedHistory = history
  /\ historyStoreFails = FALSE
  /\ stored = songs
  /\ metaTimer = <<>>
  /\ metaQueues = {}
  /\ loaded = TRUE
  /\ selections = 0
  /\ NoNotes
  /\ statLogs = <<>>
  /\ stats = None

\* the values Math.random() can take at line 821 (one value when it is not called)
RandomDraws ==
  IF Len(songs) > 0 /\ mode = SHUFFLE /\ IndexOf(shuffledIndices, currentSongIndex) = -1
  THEN 0..(RandRes - 1)
  ELSE {0}

\* a direct call changeIndex(direction, auto)
NavCall ==
  \E direction \in Directions, auto \in BOOLEAN, rnd \in RandomDraws :
    /\ ChangeIndex(direction, auto, rnd, Audio, Carousel,
                   [kind |-> "direct", dir |-> direction, auto |-> auto,
                    index |-> currentSongIndex, mode |-> mode, n |-> Len(songs)])
    /\ UNCHANGED <<stored, loaded, selections, metaTimer, metaQueues, request>>

\* toggleMode (lines 972-977); run is what the caller records of it
ToggleModeCall(run) ==
  /\ Commit(songs, currentSongIndex, NextMode(mode), isPlaying, Audio, Carousel,
            Session)
  /\ lastNav' = None
  /\ Notes(None, run)
  /\ UNCHANGED <<stored, loaded, selections, metaTimer, metaQueues, request>>

\* the mode button
ToggleMode == ToggleModeCall(<<>>)

\* a direct call toggleMode(), recorded with the modes before the last
\* Len(PlaybackMode) calls in a row
NavToggle ==
  ToggleModeCall(IF Len(toggleRun) < Len(PlaybackMode) THEN Append(toggleRun, mode)
                 ELSE Append(Tail(toggleRun), mode))

NavNext == NavCall \/ NavToggle

NavSpec == NavInit /\ [][NavNext]_vars

\* ------------------------------------------------------------- the player
\* State after mount: the saved index and mode are read from localStorage, the
\* track list is empty until init() has loaded it from the record store.
Init ==
  /\ \E n \in 0..PlayerTracks, tagged \in BOOLEAN :
       stored = [i \in 1..n |-> IF tagged THEN Refined(<<0, i>>) ELSE <<0, i>>]
  /\ songs = <<>>
  /\ currentSongIndex \in IF Len(stored) = 0 THEN {-1} ELSE 0..(Len(stored) - 1)
  /\ mode \in ModeSet
  /\ shuffledIndices = <<>>
  /\ isPlaying = FALSE
  /\ currentTime = 0
  /\ audioPaused = TRUE
  /\ audioTime = 0
  /\ audioEvents = <<>>
  /\ playAllowed = TRUE
  /\ CarouselAtRest
  /\ isFullPlayerOpen = FALSE
  /\ SessionAtRest
  /\ history = <<>>
  /\ savedHistory = history
  /\ historyStoreFails = FALSE
  /\ loaded = FALSE
  /\ selections = 0
  /\ metaTimer = <<>>
  /\ metaQueues = {}
  /\ NoNotes
  /\ statLogs = <<>>
  /\ stats = None

\* needsParse (lines 506-512): one of the first tracks has no artist
NeedsParse(list) ==
  \E i \in DOMAIN list : i <= MetadataProbe /\ ~IsRefined(list[i])

\* store.put(songRecord) (db.ts lines 54-72): the record with the key song.id
\* is replaced, and added when the store has none
PutSong(list, song) ==
  IF \E i \in DOMAIN list : IdOf(list[i]) = IdOf(song)
  THEN [i \in DOMAIN list |-> IF IdOf(list[i]) = IdOf(song) THEN song ELSE list[i]]
  ELSE Append(list, song)

\* prev.map(s => s.id === song.id ? updatedSong : s) (line 547); the mutant
\* puts the refined track in every place
MapSong_All(list, song) == [i \in DOMAIN list |-> song]

MapSong(list, song) ==
  [i \in DOMAIN list |-> IF IdOf(list[i]) = IdOf(song) THEN song ELSE list[i]]

\* init() (lines 496-527): setSongs(storedSongs) when the store is not empty,
\* and the background metadata check is scheduled with storedSongs
LoadSongs ==
  /\ ~loaded
  /\ loaded' = TRUE
  /\ metaTimer' = stored
  /\ Commit(IF Len(stored) > 0 THEN stored ELSE songs, currentSongIndex, mode,
            isPlaying, Audio, Carousel, Session)
  /\ Quiet
  /\ UNCHANGED <<stored, selections, metaQueues, request>>

\* store.getAll() (db.ts line 80) returns the records in ascending order of
\* their key, the id `${file.name}-${Date.now()}-${Math.random()}` compared by
\* code unit, while the list was sorted with localeCompare (line 941): byKey
\* says whether the two orders agree for the files selected (they are
\* opposite for 'a.mp3' and 'B.mp3').  A store is kept as what getAll() returns.
KeyOrder(list, byKey) ==
  IF byKey THEN list ELSE [i \in DOMAIN list |-> list[Len(list) + 1 - i]]

\* saveSongsToDB (db.ts lines 25-51): store.clear() and one put per track in
\* one transaction, which leaves the store as it was when it fails
SaveSongs(store, list, byKey, saved) ==
  IF saved THEN KeyOrder(list, byKey) ELSE store

\* handleFolderSelect (lines 935-965) with k audio files selected:
\* saveSongsToDB(initialSongs) replaces the store (its failure is logged),
\* processMetadataQueue(initialSongs, 0) starts parsing the list
FolderSelected(k, byKey, saved) ==
  /\ selections < MaxSelections
  /\ selections' = selections + 1
  /\ stored' = SaveSongs(stored, NewSongs(selections + 1, k), byKey, saved)
  /\ metaQueues' = metaQueues \cup {NewSongs(selections + 1, k)}
  /\ Commit(NewSongs(selections + 1, k), 0, mode, FALSE, Audio, Carousel, Session)
  /\ lastNav' = None
  /\ Notes([kind |-> "select", k |-> k, saved |-> saved], <<>>)
  /\ UNCHANGED <<loaded, metaTimer, request>>

\* a folder whose files have the same order by name and by key, saved
HandleFolderSelect ==
  \E k \in 1..PlayerTracks : FolderSelected(k, TRUE, TRUE)

\* any folder, saved or not
HandleAnyFolderSelect ==
  \E k \in 1..PlayerTracks, byKey \in BOOLEAN, saved \in BOOLEAN :
    FolderSelected(k, byKey, saved)

\* handlePlayFiltered (lines 1190-1196): a tap on track i of the list
HandlePlayFiltered ==
  \E i \in 0..(Len(songs) - 1) :
    /\ Commit(songs, i, mode, TRUE, Audio, Carousel, Session)
    /\ Quiet
    /\ UNCHANGED <<stored, loaded, selections, metaTimer, metaQueues, request>>

\* togglePlay (lines 967-970)
TogglePlay ==
  /\ Commit(songs, currentSongIndex, mode, ~isPlaying, Audio, Carousel, Session)
  /\ lastNav' = None
  /\ Notes(None, <<>>)
  /\ UNCHANGED <<stored, loaded, selections, metaTimer, metaQueues, request>>

\* the slide of performSongChange and of a committed swipe: the track goes to
\* the neighbouring slot and the cards to their final scales
SlideTo(c, direction) ==
  [c EXCEPT !.switching = TRUE, !.animating = TRUE, !.pending = direction,
            !.x = IF direction = "next" THEN 0 - ContainerWidth ELSE ContainerWidth,
            !.scale = IF direction = "next"
                      THEN [c.scale EXCEPT !.current = 8500, !.next = 10000]
                      ELSE [c.scale EXCEPT !.current = 8500, !.prev = 10000],
            !.steps = 0]

\* the guard of performSongChange (line 902)
Busy(c) == c.switching

\* performSongChange(direction, auto) (lines 901-923); a and s are the media
\* element and the session tracker as the caller left them.  The auto
\* argument is not used by the body.
PerformSongChange(direction, auto, a, s) ==
  IF Busy(Carousel)
  THEN /\ Commit(songs, currentSongIndex, mode, isPlaying, a, Carousel, s)
       /\ UNCHANGED request
  ELSE /\ Commit(songs, currentSongIndex, mode, isPlaying, a,
                 SlideTo(Carousel, direction), s)
       /\ request' = [kind |-> "slide", by |-> "request", dir |-> direction,
                      auto |-> auto, index |-> currentSongIndex, mode |-> mode,
                      n |-> Len(songs)]

\* what a step that handles a request or a touch event records of it
Event(kind, dx, dy) == [kind |-> kind, dx |-> dx, dy |-> dy]

\* the next button and the media-session 'nexttrack' action:
\* handleNextAnimated(false) (lines 759, 925, 1703)
HandleNextButton ==
  /\ PerformSongChange("next", FALSE, Audio, Session)
  /\ lastNav' = None
  /\ Notes(Event("request", 0, 0), <<>>)
  /\ UNCHANGED <<stored, loaded, selections, metaTimer, metaQueues>>

\* currentTime > 3 (line 928), currentTime in position steps; the mutant
\* restarts at 3 seconds too
RestartsTrack_AtThree(t) == t * PosSeconds >= PrevRestartSeconds

RestartsTrack(t) == t * PosSeconds > PrevRestartSeconds

\* the previous button and the media-session 'previoustrack' action:
\* handlePrevAnimated (lines 758, 926-933, 1697)
HandlePrevButton ==
  /\ Len(songs) # 0
  /\ IF RestartsTrack(currentTime)
     THEN /\ Commit(songs, currentSongIndex, mode, isPlaying,
                    [Audio EXCEPT !.time = 0], Carousel, Session)
          /\ UNCHANGED request
          /\ Notes(Event("restart", 0, 0), <<>>)
     ELSE /\ PerformSongChange("prev", FALSE, Audio, Session)
          /\ Notes(Event("request", 0, 0), <<>>)
  /\ lastNav' = None
  /\ UNCHANGED <<stored, loaded, selections, metaTimer, metaQueues>>

\* the media element plays on
Progress ==
  /\ ~audioPaused
  /\ SrcOf(songs, currentSongIndex) # NoSong
  /\ audioTime < MaxPos
  /\ Commit(songs, currentSongIndex, mode, isPlaying,
            [Audio EXCEPT !.time = audioTime + 1],
            Carousel, Session)
  /\ lastNav' = None
  /\ Notes(None, <<>>)
  /\ UNCHANGED <<stored, loaded, selections, metaTimer, metaQueues, request>>

\* the media element reaches the end of the track: it pauses itself and queues
\* 'pause' and then 'ended'
TrackEnds ==
  /\ ~audioPaused
  /\ SrcOf(songs, currentSongIndex) # NoSong
  /\ Commit(songs, currentSongIndex, mode, isPlaying,
            [Audio EXCEPT !.paused = TRUE, !.time = MaxPos,
                          !.events = audioEvents \o <<"pause", "ended">>],
            Carousel, Session)
  /\ lastNav' = None
  /\ Notes(None, <<>>)
  /\ UNCHANGED <<stored, loaded, selections, metaTimer, metaQueues, request>>

\* 'timeupdate' (lines 641-645, no seek drag in progress): the shown time
\* follows the media element
TimeUpdate ==
  /\ currentTime # audioTime
  /\ Commit(songs, currentSongIndex, mode, isPlaying,
            [Audio EXCEPT !.shown = audioTime], Carousel, Session)
  /\ Quiet
  /\ UNCHANGED <<stored, loaded, selections, metaTimer, metaQueues, request>>

\* the seek bar of a paused track is dragged to position t and released:
\* handleSeekStart, handleSeekMove, handleSeekEnd (lines 983-1005).  The
\* Audio Logic effect re-runs with isDragging and has no segment to flush.
Seek ==
  \E t \in 0..MaxSeek :
    /\ SrcOf(songs, currentSongIndex) # NoSong
    /\ audioPaused /\ ~isPlaying /\ lastPlayStartRef = 0
    /\ t # audioTime \/ t # currentTime
    /\ Commit(songs, currentSongIndex, mode, isPlaying,
              [Audio EXCEPT !.time = t, !.shown = t], Carousel, Session)
    /\ lastNav' = None
    /\ Notes(Event("seek", t, 0), <<>>)
    /\ UNCHANGED <<stored, loaded, selections, metaTimer, metaQueues, request>>

\* checkMetadata (lines 504-518), 2 s after init() loaded a stored list
CheckMetadata ==
  /\ metaTimer # <<>>
  /\ metaTimer' = <<>>
  /\ metaQueues' = IF NeedsParse(metaTimer) THEN metaQueues \cup {metaTimer}
                                             ELSE metaQueues
  /\ Commit(songs, currentSongIndex, mode, isPlaying, Audio, Carousel, Session)
  /\ Quiet
  /\ UNCHANGED <<stored, loaded, selections, request>>

\* processMetadataQueue lines 547-548: setSongs runs before updateSongInDB is
\* awaited, so the list is refined whether the put succeeds or not; the
\* mutant awaits the put first
RefinedList_AfterPut(list, song, put) == IF put THEN MapSong(list, song) ELSE list

RefinedList(list, song, put) == MapSong(list, song)

\* processMetadataQueue (lines 530-558): getMetadata(song.file) settles for
\* the next track of a run (with tags found or not); updateSongInDB succeeds
\* (put) or rejects, which is caught at line 550; the run goes on with the
\* rest of the list it was started with
Parsed(put) ==
  \E q \in metaQueues, found \in BOOLEAN :
    LET song == Head(q)
        updates == found /\ ~IsRefined(song)
    IN /\ metaQueues' = (metaQueues \ {q}) \cup (IF Len(q) > 1 THEN {Tail(q)} ELSE {})
       /\ stored' = IF updates /\ put THEN PutSong(stored, Refined(song)) ELSE stored
       /\ Commit(IF updates THEN RefinedList(songs, Refined(song), put) ELSE songs,
                 currentSongIndex, mode, isPlaying, Audio, Carousel, Session)
       /\ lastNav' = None
       /\ Notes([kind |-> "parsed", queue |-> q, updates |-> updates, put |-> put],
                <<>>)
       /\ UNCHANGED <<loaded, selections, metaTimer, request>>

\* the record store takes the put
MetadataParsed == Parsed(TRUE)

\* the record store takes the put or not
MetadataSettles == \E put \in BOOLEAN : Parsed(put)

\* handlePlay (lines 659-668)
HandlePlay ==
  /\ audioEvents # <<>> /\ Head(audioEvents) = "play"
  /\ Commit(songs, currentSongIndex, mode, TRUE,
            [Audio EXCEPT !.events = Tail(audioEvents)], Carousel,
            StartSegment(Session))
  /\ lastNav' = None
  /\ Notes(None, <<>>)
  /\ UNCHANGED <<stored, loaded, selections, metaTimer, metaQueues, request>>

\* handlePause (lines 670-679)
HandlePause ==
  /\ audioEvents # <<>> /\ Head(audioEvents) = "pause"
  /\ Commit(songs, currentSongIndex, mode, FALSE,
            [Audio EXCEPT !.events = Tail(audioEvents)], Carousel,
            FlushPlaySession(Session, "pause"))
  /\ lastNav' = None
  /\ Notes(None, <<>>)
  /\ UNCHANGED <<stored, loaded, selections, metaTimer, metaQueues, request>>

\* handleEnded (lines 681-684): flushPlaySession(), handleNextAnimated(true)
HandleEnded ==
  /\ audioEvents # <<>> /\ Head(audioEvents) = "ended"
  /\ PerformSongChange("next", TRUE, [Audio EXCEPT !.events = Tail(audioEvents)],
                       FlushPlaySession(Session, "ended"))
  /\ lastNav' = None
  /\ Notes(Event("request", 0, 0), <<>>)
  /\ UNCHANGED <<stored, loaded, selections, metaTimer, metaQueues>>

\* e.target === albumArtContainerRef.current && e.propertyName === 'transform'
\* (line 891); the mutant looks at the property only
OnTrackTransform_AnyTarget(target, propertyName) == propertyName = "transform"

OnTrackTransform(target, propertyName) ==
  target = "track" /\ propertyName = "transform"

\* The transition of a card's scale, started with a slide or a snap-back,
\* completes and its 'transitionend' bubbles to the track:
\* onCarouselTransitionEnd (lines 889-899) with e.target the card
CardTransitionEnd ==
  \E card \in {"prev", "current", "next"} :
    /\ slideRunning \/ snapTimers > 0
    /\ IF OnTrackTransform(card, "transform") /\ pendingCarouselReset # "none"
       THEN \E rnd \in RandomDraws :
              ChangeIndex(pendingCarouselReset, FALSE, rnd, Audio,
                          [Carousel EXCEPT !.resetNeeded = TRUE],
                          [kind |-> "card", card |-> card])
       ELSE /\ Commit(songs, currentSongIndex, mode, isPlaying, Audio, Carousel,
                      Session)
            /\ lastNav' = None
            /\ Notes(Event("cardend", 0, 0), <<>>)
    /\ UNCHANGED <<stored, loaded, selections, metaTimer, metaQueues, request>>

\* A transition of the track transform completes: onCarouselTransitionEnd
\* (lines 889-899)
TransitionEnd ==
  /\ slideRunning
  /\ IF pendingCarouselReset # "none"
     THEN \E rnd \in RandomDraws :
            ChangeIndex(pendingCarouselReset, FALSE, rnd, Audio,
                        [Carousel EXCEPT !.running = FALSE, !.resetNeeded = TRUE,
                                         !.steps = IF navSteps < 2 THEN navSteps + 1
                                                   ELSE navSteps],
                        request)
     ELSE /\ Commit(songs, currentSongIndex, mode, isPlaying, Audio,
                    [Carousel EXCEPT !.running = FALSE], Session)
          /\ Quiet
  /\ request' = None
  /\ UNCHANGED <<stored, loaded, selections, metaTimer, metaQueues>>

Next ==
  \/ LoadSongs
  \/ HandleFolderSelect
  \/ HandlePlayFiltered
  \/ TogglePlay
  \/ HandleNextButton
  \/ Progress
  \/ TrackEnds
  \/ HandlePlay
  \/ HandlePause
  \/ HandleEnded
  \/ TransitionEnd

Spec == Init /\ [][Next]_vars

\* ------------------------------------------------------------ touch gestures
Abs(x) == IF x < 0 THEN 0 - x ELSE x

Min(x, y) == IF x < y THEN x ELSE y

\* dampedX = diffX * 0.6 (line 1064)
Damped(diffX) == (diffX * 6) \div 10

\* 0.15 * ratio with ratio = Math.min(Math.abs(dampedX) / containerWidth, 1)
\* (lines 1074-1075), in 1/10000
ScaleShift(dampedX) == (1500 * Min(Abs(dampedX), ContainerWidth)) \div ContainerWidth

\* the early return of the three touch handlers (lines 1024, 1038, 1113);
\* the mutant lets every touch event through
GestureIgnored_Never(c) == FALSE

GestureIgnored(c) == c.switching

\* Math.abs(diffY) > Math.abs(diffX) (lines 1049, 1130)
Vertical(diffX, diffY) == Abs(diffY) > Abs(diffX)

\* Math.abs(diffX) > containerWidth * 0.35 (lines 1128, 1143); the mutant
\* commits at the threshold too
OverThreshold_Inclusive(diffX) == Abs(diffX) * 100 >= ContainerWidth * 35

OverThreshold(diffX) == Abs(diffX) * 100 > ContainerWidth * 35

\* const direction = diffX > 0 ? 'prev' : 'next' (line 1144)
SwipeDirection(diffX) == IF diffX > 0 THEN "prev" ELSE "next"

\* the body of handleTouchMove (lines 1049-1108)
MoveTrack(c, diffX, diffY) ==
  IF Vertical(diffX, diffY)
  THEN IF diffY > 0
       THEN LET c1 == [c EXCEPT !.translateY = diffY, !.sheet = diffY]
            IN IF c.translateX # 0
               THEN [c1 EXCEPT !.translateX = 0, !.x = 0, !.scale = RestScale]
               ELSE c1
       ELSE c
  ELSE LET dampedX == Damped(diffX)
           c1 == [c EXCEPT
                    !.translateX = dampedX, !.transitionNone = TRUE, !.x = dampedX,
                    !.scale = [prev |-> IF dampedX < 0 THEN 8500
                                        ELSE 8500 + ScaleShift(dampedX),
                               current |-> 10000 - ScaleShift(dampedX),
                               next |-> IF dampedX < 0
                                        THEN 8500 + ScaleShift(dampedX)
                                        ELSE 8500]]
       IN IF c.translateY # 0 THEN [c1 EXCEPT !.translateY = 0, !.sheet = 0]
          ELSE c1

\* the body of handleTouchEnd (lines 1115-1178)
ReleaseTrack(c, diffX, diffY) ==
  LET c1 == [c EXCEPT !.transitionNone = FALSE]
  IN IF Vertical(diffX, diffY) /\ diffY > 0
     THEN IF diffY > VerticalThreshold
          THEN [c1 EXCEPT !.animating = TRUE, !.open = FALSE, !.translateY = 0]
          ELSE [c1 EXCEPT !.animating = TRUE, !.sheet = 0, !.translateY = 0,
                          !.timers = c.timers + 1]
     ELSE IF OverThreshold(diffX)
          THEN SlideTo(c1, SwipeDirection(diffX))
          ELSE [c1 EXCEPT !.animating = TRUE, !.x = 0, !.scale = RestScale,
                          !.translateX = 0, !.timers = c.timers + 1]

\* handleTouchStart (lines 1023-1035): a finger lands on the full player
TouchStart ==
  /\ ~touching
  /\ isFullPlayerOpen
  /\ Commit(songs, currentSongIndex, mode, isPlaying, Audio,
            IF GestureIgnored(Carousel) THEN [Carousel EXCEPT !.touching = TRUE]
            ELSE [Carousel EXCEPT !.touching = TRUE, !.animating = FALSE],
            Session)
  /\ lastNav' = None
  /\ Notes(Event("start", 0, 0), <<>>)
  /\ UNCHANGED <<stored, loaded, selections, metaTimer, metaQueues, request>>

\* handleTouchMove (lines 1037-1109) with the finger at offset (diffX, diffY)
TouchMove ==
  \E diffX \in DragX, diffY \in DragY :
    /\ touching
    /\ Commit(songs, currentSongIndex, mode, isPlaying, Audio,
              IF GestureIgnored(Carousel) THEN Carousel
              ELSE MoveTrack(Carousel, diffX, diffY),
              Session)
    /\ lastNav' = None
    /\ Notes(Event("move", 0, 0), <<>>)
    /\ UNCHANGED <<stored, loaded, selections, metaTimer, metaQueues, request>>

\* handleTouchEnd (lines 1111-1179) with the finger lifted at (diffX, diffY).
\* With timerFires the release commits a slide and the timer of an earlier
\* snap-back (lines 1139, 1176) runs in the same frame, before the style
\* change that starts the transition: setIsAnimating(false) has taken the
\* transition class off the track (line 1589) when its new transform is
\* computed.
Release(timerFires) ==
  \E diffX \in DragX, diffY \in DragY :
    LET c0 == [Carousel EXCEPT !.touching = FALSE]
        c1 == IF GestureIgnored(Carousel) THEN c0 ELSE ReleaseTrack(c0, diffX, diffY)
        c2 == IF timerFires
              THEN [c1 EXCEPT !.timers = snapTimers - 1, !.animating = FALSE]
              ELSE c1
    IN /\ touching
       /\ c1.timers <= MaxTimers
       /\ timerFires => (snapTimers > 0 /\ c1.switching /\ ~isSwitchingRef)
       /\ Commit(songs, currentSongIndex, mode, isPlaying, Audio, c2, Session)
       /\ request' =
            IF c1.switching /\ ~isSwitchingRef
            THEN [kind |-> "slide", by |-> "swipe", dir |-> SwipeDirection(diffX),
                  auto |-> FALSE, index |-> currentSongIndex, mode |-> mode,
                  n |-> Len(songs)]
            ELSE request
       /\ lastNav' = None
       /\ Notes(Event("end", diffX, diffY), <<>>)
       /\ UNCHANGED <<stored, loaded, selections, metaTimer, metaQueues>>

\* each handler is followed by a style change of its own
TouchEnd == Release(FALSE)

\* the release and the timer share a frame
TouchEndInTimerFrame == Release(TRUE)

\* the platform cancels the touch ('touchcancel'): no handler is wired for it
\* (lines 1554-1556), so nothing runs and the finger is gone
TouchCancel ==
  /\ touching
  /\ Commit(songs, currentSongIndex, mode, isPlaying, Audio,
            [Carousel EXCEPT !.touching = FALSE], Session)
  /\ lastNav' = None
  /\ Notes(Event("cancel", 0, 0), <<>>)
  /\ UNCHANGED <<stored, loaded, selections, metaTimer, metaQueues, request>>

\* the timer of a snap-back fires: setIsAnimating(false) (lines 1139, 1176)
SnapTimer ==
  /\ snapTimers > 0
  /\ Commit(songs, currentSongIndex, mode, isPlaying, Audio,
            [Carousel EXCEPT !.timers = snapTimers - 1, !.animating = FALSE],
            Session)
  /\ Quiet
  /\ UNCHANGED <<stored, loaded, selections, metaTimer, metaQueues, request>>

\* openFullPlayer (lines 616, 1514): a tap on the mini player
OpenFullPlayer ==
  /\ ~isFullPlayerOpen
  /\ Len(songs) # 0 \/ ~loaded
  /\ Commit(songs, currentSongIndex, mode, isPlaying, Audio,
            [Carousel EXCEPT !.open = TRUE], Session)
  /\ Quiet
  /\ UNCHANGED <<stored, loaded, selections, metaTimer, metaQueues, request>>

\* closeFullPlayer (lines 597-599, 618, 1571): the close button or the back key
CloseFullPlayer ==
  /\ isFullPlayerOpen
  /\ Commit(songs, currentSongIndex, mode, isPlaying, Audio,
            [Carousel EXCEPT !.open = FALSE], Session)
  /\ Quiet
  /\ UNCHANGED <<stored, loaded, selections, metaTimer, metaQueues, request>>

\* ------------------------------------------------------ clock and teardown
reactVars == <<songs, currentSongIndex, mode, shuffledIndices, isPlaying, currentTime>>

audioVars == <<audioPaused, audioTime, audioEvents, playAllowed>>

carouselVars ==
  <<isSwitchingRef, pendingCarouselReset, layoutResetNeededRef, isAnimating,
    trackX, cardScale, slideRunning, currentTranslateX, trackTransitionNone,
    currentTranslateY, sheetY, isFullPlayerOpen, touching, snapTimers, navSteps>>

storeVars == <<stored, loaded, selections, metaTimer, metaQueues, statLogs, stats,
               historyStoreFails>>

\* Date.now() moves on by one tick; the media events queued before are
\* dispatched within the tick they were queued in
Tick ==
  /\ ~unloaded
  /\ audioEvents = <<>>
  /\ now < MaxNow
  /\ now' = now + 1
  /\ lastNav' = None
  /\ lastShuffle' = None
  /\ lastPlay' = None
  /\ lastFlush' = None
  /\ Notes(None, <<>>)
  /\ UNCHANGED <<reactVars, audioVars, carouselVars, storeVars, lastPlayStartRef,
                 history, savedHistory, effectIsPlaying, segmentSong, lastPlayEvent, unloaded,
                 request>>

\* the page is unloaded: handleBeforeUnload (lines 686-688), with the
\* isPlaying of the render in which the Audio Logic effect last ran
Unload ==
  LET s == IF effectIsPlaying THEN FlushPlaySession(Session, "unload") ELSE Session
  IN /\ ~unloaded
     /\ unloaded' = TRUE
     /\ lastPlayStartRef' = s.start
     /\ history' = s.history
     /\ savedHistory' = SavedAfter(s.history)
     /\ segmentSong' = s.segment
     /\ lastFlush' = [kind |-> "unload"]
     /\ lastNav' = None
     /\ lastShuffle' = None
     /\ lastPlay' = None
     /\ Notes(None, <<>>)
     /\ UNCHANGED <<reactVars, audioVars, carouselVars, storeVars, now,
                    effectIsPlaying, lastPlayEvent, request>>

\* ------------------------------------------------------ a restored library
\* The player after init() has loaded a stored list of n tracks: the saved
\* index is a valid offset, the generator effect has run for the saved mode,
\* nothing plays.
Restored(n) ==
  /\ songs = NewSongs(0, n)
  /\ stored = songs
  /\ metaTimer = <<>>
  /\ metaQueues = {}
  /\ currentSongIndex \in 0..(n - 1)
  /\ mode \in ModeSet
  /\ shuffledIndices \in IF mode = SHUFFLE THEN PermutationsOf(n) ELSE {<<>>}
  /\ isPlaying = FALSE
  /\ currentTime = 0
  /\ audioPaused = TRUE
  /\ audioTime = 0
  /\ audioEvents = <<>>
  /\ playAllowed = TRUE
  /\ CarouselAtRest
  /\ isFullPlayerOpen = FALSE
  /\ SessionAtRest
  /\ loaded = TRUE
  /\ selections = 0
  /\ NoNotes
  /\ statLogs = <<>>
  /\ stats = None

\* ------------------------------------------- session tracker (SessionSpec)
SessionInit ==
  /\ \E n \in 1..SessionTracks : Restored(n)
  /\ history = <<>>
  /\ savedHistory = history
  /\ historyStoreFails = FALSE

\* play, pause, mode toggles and teardown
SessionNext ==
  \/ HandlePlayFiltered
  \/ TogglePlay
  \/ ToggleMode
  \/ HandlePlay
  \/ HandlePause
  \/ Tick
  \/ Unload

SessionSpec == SessionInit /\ [][SessionNext]_vars

\* ---------------------------------- tracker and navigation (AdvanceSpec)
\* play, pause, the end of the track and track changes
AdvanceNext ==
  \/ HandlePlayFiltered
  \/ TogglePlay
  \/ HandleNextButton
  \/ TrackEnds
  \/ HandlePlay
  \/ HandlePause
  \/ HandleEnded
  \/ TransitionEnd
  \/ Tick
  \/ Unload

AdvanceSpec == SessionInit /\ [][AdvanceNext]_vars

\* --------------------------------------- tracker and addLog (TrackerSpec)
\* a log entry of an earlier session, as loadHistory returns it
OldLog == [songId |-> <<0, 1>>, timestamp |-> 0, duration |-> 3 * Second]

\* durations handed to addLog, in ms
LogDurations == {Second - 1, Second, 2 * Second}

TrackerInit ==
  /\ \E n \in 1..SessionTracks : Restored(n)
  /\ mode = SEQUENCE
  /\ history \in {<<>>, <<OldLog>>}
  /\ savedHistory = history
  /\ historyStoreFails = FALSE

\* a call addLog(history, song, duration) for the current track
AddLogCall ==
  \E k \in {currentSongIndex + 1}, d \in LogDurations :
    /\ Len(history) < MaxLogs
    /\ history' = AddLog(history, IdOf(songs[k]), d)
    /\ savedHistory' = SavedAfter(AddLog(history, IdOf(songs[k]), d))
    /\ lastFlush' = [kind |-> "addLog"]
    /\ lastGesture' = Event("addLog", k, d)
    /\ toggleRun' = <<>>
    /\ lastNav' = None
    /\ lastShuffle' = None
    /\ lastPlay' = None
    /\ UNCHANGED <<reactVars, audioVars, carouselVars, storeVars, now,
                   lastPlayStartRef, effectIsPlaying, segmentSong, lastPlayEvent,
                   unloaded, request>>

TrackerNext == TogglePlay \/ HandlePlay \/ HandlePause \/ Tick \/ AddLogCall

TrackerSpec == TrackerInit /\ [][TrackerNext]_vars

\* ------------------------------------------------ carousel (CarouselSpec)
\* the full player of a paused library: touch gestures and the buttons
CarouselInit ==
  /\ \E n \in 1..CarouselTracks : Restored(n)
  /\ history = <<>>
  /\ savedHistory = history
  /\ historyStoreFails = FALSE

CarouselNext ==
  \/ OpenFullPlayer
  \/ CloseFullPlayer
  \/ TouchStart
  \/ TouchMove
  \/ TouchEnd
  \/ SnapTimer
  \/ TransitionEnd
  \/ HandleNextButton
  \/ HandlePrevButton

CarouselSpec == CarouselInit /\ [][CarouselNext]_vars

\* ------------------------------------------- shuffle queue (ShuffleSpec)
\* the player from mount with everything that changes the mode, the track
\* count or the index through the navigator
ShuffleNext ==
  \/ LoadSongs
  \/ HandleFolderSelect
  \/ ToggleMode
  \/ HandleNextButton
  \/ HandlePrevButton
  \/ TransitionEnd

ShuffleSpec == Init /\ [][ShuffleNext]_vars

\* --------------------------------------------- touch gestures (GestureSpec)
\* the full player under touch input only, with touches the platform cancels
GestureNext ==
  \/ OpenFullPlayer
  \/ CloseFullPlayer
  \/ TouchStart
  \/ TouchMove
  \/ TouchEnd
  \/ TouchCancel
  \/ SnapTimer
  \/ CardTransitionEnd
  \/ TransitionEnd

GestureSpec == CarouselInit /\ [][GestureNext]_vars

\* ------------------------------------------- the previous button (PrevSpec)
\* a paused library: seeks, backward presses and the slides they start
PrevNext ==
  \/ Seek
  \/ TimeUpdate
  \/ HandlePrevButton
  \/ TransitionEnd

PrevSpec == CarouselInit /\ [][PrevNext]_vars

\* ------------------------------------------ the metadata parser (MetaSpec)
\* The library is loaded or replaced while metadata runs are under way.
MetaNext == LoadSongs \/ CheckMetadata \/ HandleFolderSelect \/ MetadataParsed

MetaSpec == Init /\ [][MetaNext]_vars

\* --------------------------------------------------- the transport (PlaySpec)
\* The platform starts or stops letting play() through (autoplay policy, user
\* activation).
ActivationChanges ==
  /\ ~unloaded
  /\ playAllowed' = ~playAllowed
  /\ lastNav' = None
  /\ lastShuffle' = None
  /\ lastPlay' = None
  /\ lastFlush' = None
  /\ Notes(None, <<>>)
  /\ UNCHANGED <<reactVars, audioPaused, audioTime, audioEvents, carouselVars,
                 storeVars, now, lastPlayStartRef, history, savedHistory, effectIsPlaying,
                 segmentSong, lastPlayEvent, unloaded, request>>

PlayNext ==
  \/ LoadSongs
  \/ TogglePlay
  \/ HandlePlayFiltered
  \/ HandlePlay
  \/ HandlePause
  \/ ActivationChanges

PlaySpec == Init /\ [][PlayNext]_vars

\* ------------------------------------------------ the library (LibrarySpec)
\* The app is launched again after the page was unloaded: the state
\* initialisers of lines 399-468 run anew, with the index and the mode the
\* effects of lines 488-489 wrote to localStorage, the history saved by
\* addLog, and the record store as it is.
Restart ==
  /\ unloaded
  /\ unloaded' = FALSE
  /\ songs' = <<>>
  /\ shuffledIndices' = <<>>
  /\ isPlaying' = FALSE
  /\ currentTime' = 0
  /\ audioPaused' = TRUE
  /\ audioTime' = 0
  /\ audioEvents' = <<>>
  /\ isSwitchingRef' = FALSE
  /\ pendingCarouselReset' = "none"
  /\ layoutResetNeededRef' = FALSE
  /\ isAnimating' = FALSE
  /\ trackX' = 0
  /\ cardScale' = RestScale
  /\ slideRunning' = FALSE
  /\ currentTranslateX' = 0
  /\ trackTransitionNone' = FALSE
  /\ currentTranslateY' = 0
  /\ sheetY' = 0
  /\ isFullPlayerOpen' = FALSE
  /\ touching' = FALSE
  /\ snapTimers' = 0
  /\ navSteps' = 0
  /\ lastPlayStartRef' = 0
  /\ segmentSong' = NoSong
  /\ effectIsPlaying' = FALSE
  /\ lastPlayEvent' = now
  /\ loaded' = FALSE
  /\ metaTimer' = <<>>
  /\ metaQueues' = {}
  /\ stats' = None
  /\ request' = None
  /\ lastNav' = None
  /\ lastShuffle' = None
  /\ lastPlay' = None
  /\ lastFlush' = None
  /\ Notes(None, <<>>)
  /\ history' = savedHistory
  /\ UNCHANGED <<currentSongIndex, mode, savedHistory, historyStoreFails, stored,
                 selections, statLogs, now, playAllowed>>

LibraryNext ==
  \/ LoadSongs
  \/ HandleAnyFolderSelect
  \/ HandlePlayFiltered
  \/ Unload
  \/ Restart

LibrarySpec == Init /\ [][LibraryNext]_vars

\* --------------------------------------------- snap-back timers (TimerSpec)
\* swipes and snap-backs with the timers left running by earlier snap-backs
TimerNext ==
  \/ OpenFullPlayer
  \/ TouchStart
  \/ TouchMove
  \/ TouchEnd
  \/ TouchEndInTimerFrame
  \/ SnapTimer
  \/ TransitionEnd

TimerSpec == CarouselInit /\ [][TimerNext]_vars

\* ------------------------------------------------ failing stores (StoreSpec)
\* localStorage starts or stops refusing the history (QuotaExceededError)
HistoryStoreChanges ==
  /\ ~unloaded
  /\ historyStoreFails' = ~historyStoreFails
  /\ lastNav' = None
  /\ lastShuffle' = None
  /\ lastPlay' = None
  /\ lastFlush' = None
  /\ Notes(None, <<>>)
  /\ UNCHANGED <<reactVars, audioVars, carouselVars, stored, loaded, selections,
                 metaTimer, metaQueues, statLogs, stats, now, lastPlayStartRef,
                 history, savedHistory, effectIsPlaying, segmentSong, lastPlayEvent,
                 unloaded, request>>

\* the first launch, in sequence mode: nothing is stored yet
StoreInit == Init /\ stored = <<>> /\ mode = SEQUENCE

\* a library that is selected, parsed and played while writes to the record
\* store and to the history fail
StoreNext ==
  \/ LoadSongs
  \/ HandleAnyFolderSelect
  \/ MetadataSettles
  \/ HandlePlayFiltered
  \/ HandlePlay
  \/ Tick
  \/ HistoryStoreChanges

StoreSpec == StoreInit /\ [][StoreNext]_vars

\* ------------------------------------------------ statistics (StatsSpec)
\* songRanking[0] || null (line 120)
Null == [kind |-> "null"]

\* `${log.songName}||${log.artist}` (stats.ts line 96)
SongKey(log) == log.songName \o "||" \o log.artist

\* One map of calculateStats, a Map in insertion order, kept as a sequence of
\* [key, value]: the entry of the key is created when missing (lines 97-99,
\* 107-109), then count++ and time += log.duration (lines 100-102, 110-112)
Tally(map, key, fresh, d) ==
  LET m == IF \E i \in DOMAIN map : map[i].key = key THEN map
           ELSE Append(map, [key |-> key, value |-> fresh])
  IN [i \in DOMAIN m |->
        IF m[i].key = key
        THEN [m[i] EXCEPT !.value.count = @ + 1, !.value.time = @ + d]
        ELSE m[i]]

\* logs.forEach (lines 91-113), from log i on
RECURSIVE StatsLoop(_, _, _)
StatsLoop(logs, i, acc) ==
  IF i > Len(logs) THEN acc
  ELSE LET log == logs[i]
       IN StatsLoop(logs, i + 1,
            [totalTime |-> acc.totalTime + log.duration,
             songMap |-> Tally(acc.songMap, SongKey(log),
                               [name |-> log.songName, artist |-> log.artist,
                                count |-> 0, time |-> 0], log.duration),
             artistMap |-> Tally(acc.artistMap, log.artist,
                                 [name |-> log.artist, count |-> 0, time |-> 0],
                                 log.duration)])

\* Array.from(map.values()).sort((a, b) => b.time - a.time) (lines 116-117):
\* a stable sort, greatest time first
RECURSIVE SortByTime(_)
SortByTime(map) ==
  IF map = <<>> THEN <<>>
  ELSE LET n == Len(map)
           e == map[n].value
           sorted == SortByTime(SubSeq(map, 1, n - 1))
           k == Cardinality({i \in DOMAIN sorted : sorted[i].time >= e.time})
       IN SubSeq(sorted, 1, k) \o <<e>> \o SubSeq(sorted, k + 1, Len(sorted))

\* calculateStats (stats.ts lines 86-125)
CalculateStats(logs) ==
  LET acc == StatsLoop(logs, 1, [totalTime |-> 0, songMap |-> <<>>, artistMap |-> <<>>])
      songRanking == SortByTime(acc.songMap)
      artistRanking == SortByTime(acc.artistMap)
  IN [totalTime |-> acc.totalTime,
      topSong |-> IF songRanking = <<>> THEN Null ELSE songRanking[1],
      topArtist |-> IF artistRanking = <<>> THEN Null ELSE artistRanking[1],
      songRanking |-> songRanking,
      artistRanking |-> artistRanking]

StatsInit ==
  /\ Init
  /\ stored = <<>>
  /\ mode = SEQUENCE

\* a play is logged (songName and artist come from the file's tags)
LogPlayed ==
  \E name \in {"a", "a||b"}, artist \in {"c", "b||c"}, d \in 1..MaxDuration :
    /\ Len(statLogs) < MaxStatLogs
    /\ statLogs' = Append(statLogs, [songName |-> name, artist |-> artist, duration |-> d])
    /\ stats' = None
    /\ UNCHANGED <<reactVars, audioVars, carouselVars, stored, loaded, selections,
                   metaTimer, metaQueues, now, lastPlayStartRef, history, savedHistory, historyStoreFails,
                   effectIsPlaying, segmentSong, lastPlayEvent, unloaded, request,
                   lastNav, lastShuffle, lastPlay, lastFlush, lastGesture, toggleRun>>

\* the statistics panel is rendered (line 1434)
ShowStats ==
  /\ stats = None
  /\ stats' = CalculateStats(statLogs)
  /\ UNCHANGED <<reactVars, audioVars, carouselVars, stored, loaded, selections,
                 metaTimer, metaQueues, statLogs, now, lastPlayStartRef, history, savedHistory, historyStoreFails,
                 effectIsPlaying, segmentSong, lastPlayEvent, unloaded, request,
                 lastNav, lastShuffle, lastPlay, lastFlush, lastGesture, toggleRun>>

StatsNext == LogPlayed \/ ShowStats

StatsSpec == StatsInit /\ [][StatsNext]_vars
\* ---------------------------------------------------------------- claims
\* the last step was a changeIndex call; the state is the one it produced
Called == lastNav.kind = "call"

TrackCount == Len(songs)

\* C1: in SEQUENCE mode with N >= 1 tracks, changeIndex forward at index N-1
\* keeps the index and sets isPlaying to false when auto, and moves to 0 when
\* manual; forward from an index below N-1 moves to the next index either way.
C1_SequentialForward ==
  (Called /\ mode = SEQUENCE /\ TrackCount >= 1 /\ lastNav.dir = "next"
     /\ lastNav.from >= -1 /\ lastNav.from <= TrackCount - 1)
  => IF lastNav.from = TrackCount - 1
     THEN IF lastNav.auto
          THEN currentSongIndex = lastNav.from /\ lastNav.stop /\ ~isPlaying
          ELSE currentSongIndex = 0
     ELSE currentSongIndex = lastNav.from + 1

C1_Witness ==
  /\ Called /\ mode = SEQUENCE /\ TrackCount = MaxTracks
  /\ lastNav.dir = "next" /\ lastNav.auto /\ lastNav.from = TrackCount - 1
  /\ lastNav.pre.playing /\ ~isPlaying

\* C2: an 'ended' event at the last track in SEQUENCE mode ends with isPlaying
\* false and the index unchanged: the slide it starts does not wrap to 0.
C2_EndedAtLastStops ==
  (Called /\ lastNav.req.kind = "slide" /\ lastNav.req.auto
     /\ lastNav.req.mode = SEQUENCE /\ lastNav.req.n >= 1
     /\ lastNav.req.index = lastNav.req.n - 1
     /\ mode = SEQUENCE /\ TrackCount = lastNav.req.n
     /\ lastNav.from = lastNav.req.index)
  => currentSongIndex = lastNav.req.index /\ ~isPlaying

\* C3: in REPEAT_ONE mode with N >= 1 tracks, changeIndex with auto returns the
\* index it was given, for both directions, and restarts the track (position 0,
\* playing).
C3_RepeatOneAutoRestarts ==
  (Called /\ mode = REPEAT_ONE /\ TrackCount >= 1 /\ lastNav.auto)
  => /\ currentSongIndex = lastNav.from
     /\ lastNav.restart
     /\ audioTime = 0
     /\ ~audioPaused

C3_Witness ==
  /\ Called /\ mode = REPEAT_ONE /\ TrackCount = MaxTracks /\ lastNav.auto
  /\ lastNav.dir = "prev" /\ lastNav.from = 0
  /\ lastNav.pre.audio.paused /\ lastNav.pre.audio.time > 0
  /\ currentSongIndex = 0 /\ audioTime = 0 /\ ~audioPaused

\* C4: an 'ended' event in REPEAT_ONE mode leaves the index where it was and
\* restarts the track from position 0; the player does not advance.
C4_EndedRepeatOneRestarts ==
  (Called /\ lastNav.req.kind = "slide" /\ lastNav.req.auto
     /\ lastNav.req.mode = REPEAT_ONE
     /\ lastNav.req.index >= 0 /\ lastNav.req.index < lastNav.req.n
     /\ mode = REPEAT_ONE /\ TrackCount = lastNav.req.n
     /\ lastNav.from = lastNav.req.index)
  => currentSongIndex = lastNav.req.index /\ audioTime = 0 /\ ~audioPaused

\* C5: in REPEAT_ALL mode with N >= 1 tracks, forward from N-1 moves to 0 and
\* backward from 0 moves to N-1, auto or not, and isPlaying is left as it was;
\* in SEQUENCE mode backward from i moves to i-1, wrapping from 0 to N-1.
C5_RepeatAllWraps ==
  (Called /\ TrackCount >= 1 /\ lastNav.from >= 0 /\ lastNav.from < TrackCount)
  => /\ (mode = REPEAT_ALL /\ lastNav.dir = "next" /\ lastNav.from = TrackCount - 1)
          => (currentSongIndex = 0 /\ ~lastNav.stop /\ isPlaying = lastNav.pre.playing)
     /\ (mode = REPEAT_ALL /\ lastNav.dir = "prev" /\ lastNav.from = 0)
          => (currentSongIndex = TrackCount - 1 /\ ~lastNav.stop
              /\ isPlaying = lastNav.pre.playing)
     /\ (mode = SEQUENCE /\ lastNav.dir = "prev")
          => currentSongIndex = IF lastNav.from = 0 THEN TrackCount - 1
                                ELSE lastNav.from - 1

C5_Witness ==
  /\ Called /\ mode = REPEAT_ALL /\ TrackCount = MaxTracks
  /\ lastNav.dir = "next" /\ lastNav.auto /\ lastNav.from = TrackCount - 1
  /\ lastNav.pre.playing /\ isPlaying /\ currentSongIndex = 0

\* C6: in REPEAT_ONE mode a manual changeIndex returns what SEQUENCE mode
\* returns for a manual call (i+1 or i-1 with wrap) and does not restart the
\* current track.
C6_RepeatOneManual ==
  (Called /\ mode = REPEAT_ONE /\ TrackCount >= 1 /\ ~lastNav.auto
     /\ lastNav.from >= 0 /\ lastNav.from < TrackCount)
  => /\ currentSongIndex =
          IF lastNav.dir = "next" THEN (lastNav.from + 1) % TrackCount
          ELSE (lastNav.from - 1 + TrackCount) % TrackCount
     /\ currentSongIndex =
          ChangeIndexResult(lastNav.from, lastNav.dir, FALSE, TrackCount, SEQUENCE,
                            shuffledIndices, 0).index
     /\ ~lastNav.restart
     /\ isPlaying = lastNav.pre.playing

C6_Witness ==
  /\ Called /\ mode = REPEAT_ONE /\ TrackCount = MaxTracks /\ ~lastNav.auto
  /\ lastNav.dir = "prev" /\ lastNav.from = 0 /\ currentSongIndex = TrackCount - 1

\* C7: in SHUFFLE mode, when the current index is at position p of the
\* permutation, forward moves to the entry at (p+1) mod len and backward to the
\* entry at (p-1+len) mod len.
C7_ShuffleAdjacency ==
  (Called /\ mode = SHUFFLE /\ TrackCount >= 1)
  => \A p \in 0..(Len(shuffledIndices) - 1) :
       (At(shuffledIndices, p) = lastNav.from
          /\ \A q \in 0..(p - 1) : At(shuffledIndices, q) # lastNav.from)
       => currentSongIndex =
            IF lastNav.dir = "next"
            THEN At(shuffledIndices, (p + 1) % Len(shuffledIndices))
            ELSE At(shuffledIndices,
                    (p - 1 + Len(shuffledIndices)) % Len(shuffledIndices))

C7_Witness ==
  /\ Called /\ mode = SHUFFLE /\ TrackCount = MaxTracks
  /\ shuffledIndices = <<2, 0, 1>> /\ lastNav.from = 2 /\ lastNav.dir = "prev"
  /\ currentSongIndex = 1

\* C8: in SHUFFLE mode with N >= 1 tracks, when the permutation does not contain
\* the current index, changeIndex moves to an index in [0, N), whatever the
\* random draw and the direction.
C8_ShuffleFallbackInRange ==
  (Called /\ mode = SHUFFLE /\ TrackCount >= 1
     /\ \A k \in 1..Len(shuffledIndices) : shuffledIndices[k] # lastNav.from)
  => currentSongIndex >= 0 /\ currentSongIndex < TrackCount

C8_Witness ==
  /\ Called /\ mode = SHUFFLE /\ TrackCount = MaxTracks
  /\ lastNav.from = -1 /\ lastNav.dir = "prev"
  /\ currentSongIndex = TrackCount - 1

\* C9: for every track count N >= 1 and every sequence of draws the shuffle
\* generator stores a sequence of length N holding each of 0..N-1 exactly once.
C9_GeneratorPermutation ==
  (lastShuffle.kind = "run")
  => /\ lastShuffle.n = TrackCount
     /\ shuffledIndices = lastShuffle.result
     /\ Len(shuffledIndices) = TrackCount
     /\ \A v \in 0..(TrackCount - 1) :
          Cardinality({k \in 1..Len(shuffledIndices) : shuffledIndices[k] = v}) = 1

C9_Witness ==
  /\ lastShuffle.kind = "run" /\ TrackCount = MaxTracks
  /\ shuffledIndices = [k \in 1..MaxTracks |-> MaxTracks - k]

\* C10: changeIndex never yields an out-of-bounds index: with no tracks it
\* yields -1 and changes nothing else; from an index in [0, N) it yields an
\* index in [0, N) in every mode, direction and auto value.
C10_IndexInBounds ==
  Called
  => /\ (TrackCount = 0)
          => (currentSongIndex = -1 /\ isPlaying = lastNav.pre.playing
              /\ Audio = lastNav.pre.audio /\ ~lastNav.stop /\ ~lastNav.restart)
     /\ (TrackCount >= 1 /\ lastNav.from >= 0 /\ lastNav.from < TrackCount)
          => (currentSongIndex >= 0 /\ currentSongIndex < TrackCount)

C10_Witness ==
  /\ Called /\ TrackCount = MaxTracks /\ mode = SEQUENCE
  /\ lastNav.dir = "prev" /\ lastNav.from = 0 /\ currentSongIndex = TrackCount - 1


\* ------------------------------------------------------------------- modes
\* C11: one playback mode is active at a time and toggleMode is the fixed
\* rotation SEQUENCE -> REPEAT_ALL -> REPEAT_ONE -> SHUFFLE -> SEQUENCE: after
\* j toggles in a row from a mode m the mode is m again when j = 4 and is not
\* m when j < 4, and one toggle leads from each mode to its successor.
C11_ModeRotation ==
  /\ mode \in ModeSet
  /\ toggleRun # <<>> =>
       <<toggleRun[Len(toggleRun)], mode>> \in
         {<<SEQUENCE, REPEAT_ALL>>, <<REPEAT_ALL, REPEAT_ONE>>,
          <<REPEAT_ONE, SHUFFLE>>, <<SHUFFLE, SEQUENCE>>}
  /\ \A k \in 1..Len(toggleRun) :
       LET j == Len(toggleRun) - k + 1
       IN /\ j = 4 => mode = toggleRun[k]
          /\ j < 4 => mode # toggleRun[k]

C11_Witness == Len(toggleRun) = 4 /\ mode = toggleRun[1] /\ mode = REPEAT_ONE

\* ---------------------------------------------------------- session tracker
\* what the last step was for the session tracker
Flushed == lastFlush'.kind \in {"pause", "ended", "cleanup"}

TornDown == unloaded' /\ ~unloaded

\* elapsed time, in ms, of the segment open before the step
Elapsed == (now - lastPlayStartRef) * TickMs

\* the log entry flushPlaySession writes for the open segment
SegmentLog ==
  [songId |-> SrcOf(songs, currentSongIndex), timestamp |-> now, duration |-> Elapsed]

\* C12: the tracker has at most one open segment and every segment opened by
\* a play event is flushed exactly once: a play event never replaces a segment
\* that is still open, a flush leaves no segment open, a flush with no open
\* segment leaves the history as it was, and no segment is left open when the
\* page is torn down.
C12_SegmentFlushedOnce ==
  [][/\ lastFlush'.kind = "play" => lastPlayStartRef = 0
     /\ Flushed => lastPlayStartRef' = 0
     /\ Flushed /\ lastPlayStartRef = 0 => history' = history
     /\ TornDown => lastPlayStartRef' = 0]_vars

\* C13: a flush of an open segment appends exactly one entry, with the
\* elapsed time as duration, when the elapsed time exceeds 1 s and none when
\* it is under 1 s; addLog returns the history unchanged for a duration under
\* 1 s and otherwise the history with one entry appended and the earlier
\* entries unchanged.
C13_FlushAndAddLog ==
  [][/\ Flushed /\ lastPlayStartRef > 0 =>
          /\ Elapsed > Second => history' = Append(history, SegmentLog)
          /\ Elapsed < Second => history' = history
     /\ lastFlush'.kind = "addLog" =>
          LET song == IdOf(songs[lastGesture'.dx])
              duration == lastGesture'.dy
          IN IF duration < Second THEN history' = history
             ELSE /\ Len(history') = Len(history) + 1
                  /\ SubSeq(history', 1, Len(history)) = history
                  /\ history'[Len(history')] =
                       [songId |-> song, timestamp |-> now, duration |-> duration]
    ]_vars

C13_Witness ==
  /\ lastFlush.kind = "pause"
  /\ Len(history) = 2
  /\ history[1] = OldLog
  /\ history[2].duration = 2 * Second

\* C14: for a track that plays on from a play event to the next pause event,
\* one log entry is written for the span, at the pause, and its duration is
\* the time between the two events.
C14_SpanLoggedAtPause ==
  [][lastFlush'.kind = "pause" /\ (now - lastPlayEvent) * TickMs > Second =>
       /\ Len(history') = Len(history) + 1
       /\ history'[Len(history')].duration = (now - lastPlayEvent) * TickMs]_vars

\* C15: a teardown while a segment is open and the track plays flushes the
\* segment, and appends an entry when the elapsed time exceeds 1 s.
C15_TeardownFlushes ==
  [][TornDown /\ lastPlayStartRef > 0 /\ isPlaying /\ ~audioPaused
       /\ Elapsed > Second
     => history' = Append(history, SegmentLog)]_vars

\* C16: the flush of handleEnded is made before the auto-advance is requested
\* and before the navigator runs, and every log entry names the track that
\* was current when its segment began.
C16_EntryNamesSegmentTrack ==
  [][/\ lastFlush'.kind = "ended" =>
          /\ lastPlayStartRef' = 0
          /\ lastNav' = None
          /\ currentSongIndex' = currentSongIndex
     /\ request' # request /\ request' # None /\ request'.auto =>
          lastFlush'.kind = "ended"
     /\ history' # history =>
          /\ segmentSong # NoSong
          /\ history' = Append(history, [SegmentLog EXCEPT !.songId = segmentSong])
    ]_vars

C16_Witness ==
  /\ lastFlush.kind = "cleanup"
  /\ Len(history) = 1
  /\ history[1].songId # SrcOf(songs, currentSongIndex)
  /\ ~audioPaused

\* ---------------------------------------------------------------- carousel
\* the step handles a touch event
Touched == lastGesture'.kind \in {"start", "move", "end"}

\* the step handles a next/prev request
Requested == lastGesture'.kind = "request"

\* the slot the track slides to
SlotOf(direction) == IF direction = "next" THEN 0 - ContainerWidth ELSE ContainerWidth

\* C17: while a committed slide is in flight (switching flag set), a touch
\* start, move or end changes neither the switching flag, the pending
\* direction, the animating flag, the track transform, the slot scales nor
\* the transition in flight.
C17_GesturesIgnoredInFlight ==
  [][Touched /\ isSwitchingRef =>
       UNCHANGED <<isSwitchingRef, pendingCarouselReset, isAnimating, trackX,
                   cardScale, slideRunning>>]_vars

C17_Witness ==
  /\ lastGesture.kind = "move"
  /\ isSwitchingRef
  /\ slideRunning
  /\ trackX = SlotOf(pendingCarouselReset)

\* the step releases a horizontal gesture while no slide is in flight
Released ==
  /\ lastGesture'.kind = "end"
  /\ ~isSwitchingRef
  /\ ~(Abs(lastGesture'.dy) > Abs(lastGesture'.dx))

\* what C18 says of the release itself: over 35% of the slot width a slide
\* towards the drag is committed, at or under it the track snaps back
ReleaseRule ==
  Released =>
    LET dx == lastGesture'.dx
        direction == IF dx < 0 THEN "next" ELSE "prev"
    IN /\ currentSongIndex' = currentSongIndex
       /\ IF Abs(dx) * 100 > 35 * ContainerWidth
          THEN /\ isSwitchingRef'
               /\ pendingCarouselReset' = direction
               /\ trackX' = SlotOf(direction)
          ELSE /\ ~isSwitchingRef'
               /\ pendingCarouselReset' = "none"
               /\ trackX' = 0
               /\ cardScale' = RestScale

\* the step completes the animation of a slide committed by a swipe
SwipeCompleted ==
  /\ lastNav'.kind = "call"
  /\ lastNav'.req.kind = "slide"
  /\ lastNav'.req.by = "swipe"

C19_RequestDroppedInFlight ==
  [][/\ Requested /\ isSwitchingRef =>
          UNCHANGED <<isSwitchingRef, pendingCarouselReset, isAnimating, trackX,
                      cardScale, slideRunning, request, currentSongIndex>>
     /\ request' # request /\ request' # None => ~isSwitchingRef
     /\ navSteps' <= 1]_vars


\* C20: every committed slide is followed by the layout reset: once the
\* animation has completed and the navigator has stepped, the track is
\* centred, the scales are (0.85, 1, 0.85), the pending direction is cleared
\* and the switching flag is cleared.
C20_SlideEndsInReset ==
  (lastNav.kind = "call" /\ lastNav.req.kind = "slide") =>
    /\ trackX = 0
    /\ cardScale = RestScale
    /\ pendingCarouselReset = "none"
    /\ ~isSwitchingRef

\* ------------------------------------------------------- shuffle generator
\* the indices j the generator loop can pick: js[i] in 0..i for i = n-1 .. 1
\* (line 565)
PickSeqs(n) == {js \in [1..(n - 1) -> 0..(n - 1)] : \A i \in 1..(n - 1) : js[i] <= i}

\* a value of Math.random() for which Math.floor(Math.random() * k) is j
DrawOf(j, k) == CHOOSE rnd \in 0..(RandRes - 1) : RandomIndex(rnd, k) = j

DrawsOf(js) == [i \in DOMAIN js |-> DrawOf(js[i], i + 1)]

\* C28: the shuffle generator is unbiased: for the track count N of a
\* generator run, exactly one sequence of picks (j in 0..i at each step
\* i = N-1 .. 1) produces the stored permutation, and the picks produce every
\* permutation of 0..N-1.
C28_GeneratorBijection ==
  (lastShuffle.kind = "run")
  => /\ Cardinality({js \in PickSeqs(TrackCount) :
                       Regenerate(TrackCount, DrawsOf(js)) = shuffledIndices}) = 1
     /\ {Regenerate(TrackCount, DrawsOf(js)) : js \in PickSeqs(TrackCount)}
          = PermutationsOf(TrackCount)

C28_Witness ==
  /\ lastShuffle.kind = "run" /\ TrackCount = MaxTracks
  /\ shuffledIndices = [k \in 1..MaxTracks |-> k % MaxTracks]

CurrentShufflePos ==
  IF mode # SHUFFLE THEN -1 ELSE IndexOf(shuffledIndices, currentSongIndex)

\* prevSongIndex (lines 785-792)
PrevSongIndex ==
  IF Len(songs) = 0 THEN -1
  ELSE IF mode = SHUFFLE /\ CurrentShufflePos # -1
       THEN At(shuffledIndices,
               JsMod(CurrentShufflePos - 1 + Len(shuffledIndices), Len(shuffledIndices)))
       ELSE JsMod(currentSongIndex - 1 + Len(songs), Len(songs))

\* nextSongIndex (lines 794-801)
NextSongIndex ==
  IF Len(songs) = 0 THEN -1
  ELSE IF mode = SHUFFLE /\ CurrentShufflePos # -1
       THEN At(shuffledIndices, JsMod(CurrentShufflePos + 1, Len(shuffledIndices)))
       ELSE JsMod(currentSongIndex + 1, Len(songs))

\* the track in the slot a slide in `direction` brings to the centre
\* (prevSong / nextSong, lines 803-804)
SlotSong(direction) ==
  SrcOf(songs, IF direction = "next" THEN NextSongIndex ELSE PrevSongIndex)

\* the step completes a committed slide: the navigator is called for it
SlideCompleted ==
  /\ lastNav'.kind = "call"
  /\ lastNav'.req.kind = "slide"

\* C30: with N >= 1 tracks, in every mode, the track a committed slide makes
\* current is the track shown in the slot it slid in from: the next slot for a
\* forward slide, the previous slot for a backward slide.
C30_SlotsAgreeWithNavigator ==
  [][(SlideCompleted /\ Len(songs) >= 1)
       => SrcOf(songs', currentSongIndex') = SlotSong(lastNav'.dir)]_vars

\* ---------------------------------------------------------------- carousel
\* no gesture is in progress, nothing is pending and no animation is in flight
Resting ==
  /\ ~touching
  /\ pendingCarouselReset = "none"
  /\ ~isSwitchingRef
  /\ ~slideRunning

\* the track is centred and the slots have their resting scales
Centred == trackX = 0 /\ cardScale = RestScale

\* C21: in every state in which no gesture is in progress, the pending
\* direction is none and no animation is in flight, the track is centred with
\* scales (0.85, 1, 0.85); and the pending direction is cleared only by a step
\* that changes the index and leaves the track centred.
C21_RestingIsCentred ==
  [][/\ Resting' => Centred'
     /\ (pendingCarouselReset # "none" /\ pendingCarouselReset' = "none")
          => (currentSongIndex' # currentSongIndex /\ Centred')]_vars

\* C22: the step that completes a committed slide applies the new index and
\* re-centres the track before the next paint: the state it produces shows
\* the index the navigator returned with the track centred, the resting
\* scales, no reset left to do and no transition running.
C22_SwapAndResetInOnePaint ==
  [][SlideCompleted
       => (Centred' /\ ~layoutResetNeededRef' /\ ~slideRunning'
             /\ currentTranslateX' = 0)]_vars

\* C23: a drag whose end event is lost does not leave the controller
\* dragging: once the touch is cancelled the track and the sheet are back at
\* rest with their transitions restored, or a transition or a snap-back timer
\* that brings them there is under way.
C23_LostEndSnapsBack ==
  (lastGesture.kind = "cancel")
  => \/ (Centred /\ sheetY = 0 /\ ~trackTransitionNone)
     \/ slideRunning
     \/ snapTimers > 0

\* ------------------------------------------------------ the previous button
\* the step handles a backward press
PrevPressed == lastGesture'.kind \in {"request", "restart"}

IdsOf(list) == {IdOf(list[i]) : i \in DOMAIN list}

NewListIds == {id \in IdsOf(songs) : id[1] = selections}

C25_StaleRefinementDiscarded ==
  selections > 0 => (IdsOf(songs) \subseteq NewListIds /\ IdsOf(stored) \subseteq NewListIds)

\* ---------------------------------------------------------------------- C26
\* C26: the playing flag mirrors the transport: a step in which the play
\* command issued because the flag is true is rejected ends with the flag
\* false, and in every state with no media event pending (the play promise
\* settles within the step) the flag is true exactly when the media element
\* is not paused.
Quiescent == audioEvents = <<>>

C26_FlagMirrorsTransport ==
  [][/\ lastPlay'.kind = "rejected" => ~isPlaying'
     /\ Quiescent' => (isPlaying' <=> ~audioPaused')]_vars

\* ---------------------------------------------------------------------- C27
\* C27: for every list of log entries, calculateStats returns totalTime equal
\* to the sum of all durations; every (name, artist) of the logs has one song
\* entry, whose count is the number of its logs and whose time is the sum of
\* their durations; topSong is a song entry with the greatest time, and null
\* for an empty list.
LogsOf(name, artist) ==
  {i \in DOMAIN statLogs : statLogs[i].songName = name /\ statLogs[i].artist = artist}

RECURSIVE SumOfDurations(_)
SumOfDurations(is) ==
  IF is = {} THEN 0
  ELSE LET i == CHOOSE j \in is : TRUE
       IN statLogs[i].duration + SumOfDurations(is \ {i})

C27_StatsAddUp ==
  stats # None =>
    LET ranking == stats.songRanking
    IN /\ stats.totalTime = SumOfDurations(DOMAIN statLogs)
       /\ \A i \in DOMAIN statLogs :
            Cardinality({k \in DOMAIN ranking :
                          /\ ranking[k].name = statLogs[i].songName
                          /\ ranking[k].artist = statLogs[i].artist}) = 1
       /\ \A k \in DOMAIN ranking :
            /\ ranking[k].count = Cardinality(LogsOf(ranking[k].name, ranking[k].artist))
            /\ ranking[k].time = SumOfDurations(LogsOf(ranking[k].name, ranking[k].artist))
       /\ IF statLogs = <<>> THEN stats.topSong = Null
          ELSE /\ \E k \in DOMAIN ranking : stats.topSong = ranking[k]
               /\ \A k \in DOMAIN ranking : ranking[k].time <= stats.topSong.time

\* ---------------------------------------------------------------------- C31
\* C31: the carousel invokes the navigator only on the transition-complete
\* event of a committed slide: the current index changes only in a step that
\* handles the end of the track's transform transition while a committed
\* slide is pending, in that slide's direction; the end of a snap-back (no
\* slide pending) and the end of a card's scale transition leave it alone.
C31_NavigatorOnlyOnCommittedSlide ==
  [][/\ currentSongIndex' # currentSongIndex
          => /\ slideRunning /\ pendingCarouselReset # "none"
             /\ lastNav'.kind = "call" /\ lastNav'.req.kind = "slide"
             /\ lastNav'.dir = lastNav'.req.dir
     /\ lastGesture'.kind = "cardend" => currentSongIndex' = currentSongIndex
     /\ (slideRunning /\ pendingCarouselReset = "none")
          => currentSongIndex' = currentSongIndex]_vars

C31_Witness ==
  /\ lastNav.kind = "call" /\ lastNav.req.kind = "slide"
  /\ currentSongIndex # lastNav.from
  /\ snapTimers > 0

\* ---------------------------------------------------------------------- C32
\* C32: during a drag at most one axis carries a transform: after every
\* gesture-move event the horizontal track offset and the vertical sheet
\* offset are not both non-zero, and when the sheet carries an offset the slot
\* scales are at rest (0.85, 1, 0.85).
C32_OneAxisAtATime ==
  [][lastGesture'.kind = "move"
       => /\ ~(trackX' # 0 /\ sheetY' # 0)
          /\ sheetY' # 0 => cardScale' = RestScale]_vars

\* ---------------------------------------------------------------------- C33
\* C33: a metadata refinement for a track still in the list changes only that
\* track's name, artist and artwork: in a step that refines the list, the
\* length, the order and identifiers of all tracks, every other track and the
\* current index are unchanged, and the one track that changed is the refined
\* form of what it was.
RefinesList ==
  songs' # songs /\ loaded /\ selections' = selections

C33_RefinementInPlace ==
  [][RefinesList
       => /\ Len(songs') = Len(songs)
          /\ \A i \in DOMAIN songs : IdOf(songs'[i]) = IdOf(songs[i])
          /\ Cardinality({i \in DOMAIN songs : songs'[i] # songs[i]}) = 1
          /\ \A i \in DOMAIN songs :
               songs'[i] # songs[i] => songs'[i] = Refined(songs[i])
          /\ currentSongIndex' = currentSongIndex]_vars

C33_Witness ==
  /\ Len(songs) = 2
  /\ IsRefined(songs[2]) /\ ~IsRefined(songs[1])

\* ---------------------------------------------------------------------- C34
\* C34: saving a track list to the record store and then loading it yields
\* the same track list, the same tracks in the same order, and a whole-list
\* save removes every record of the previous list: after a folder selection
\* whose save has written the store, what the store returns is the list
\* that was saved.
C34_SaveThenLoad ==
  [][(selections' = selections + 1 /\ stored' # stored) => stored' = songs']_vars

\* ---------------------------------------------------------------------- C35
\* C35: in every reachable state of the player, including the state restored
\* at startup, the current index is the none sentinel (-1) or a valid offset
\* in [0, track count).
ValidIndex == currentSongIndex = -1 \/ currentSongIndex \in 0..(Len(songs) - 1)

C35_IndexInRange == ValidIndex

\* ---------------------------------------------------------------------- C36
\* C36: a committed slide whose navigator step returns the index that is
\* already current still completes: the step that ends the slide leaves the
\* track centred with the resting scales, no reset left to do, the pending
\* direction and the switching flag cleared.
C36_SameIndexSlideCompletes ==
  [][(SlideCompleted /\ lastNav'.from = currentSongIndex'
        /\ currentSongIndex' = currentSongIndex)
       => (Centred' /\ ~layoutResetNeededRef' /\ ~isSwitchingRef'
             /\ pendingCarouselReset' = "none")]_vars

\* ---------------------------------------------------------------------- C37
\* a release commits a slide that moves the track
CommitsSlide ==
  /\ lastGesture'.kind = "end"
  /\ ~isSwitchingRef /\ isSwitchingRef'
  /\ trackX' # trackX

\* C37: the timer of a snap-back does not disturb a slide committed before it
\* fires: however the release that commits the slide and the timer are
\* interleaved, the release starts the transition of the track, and the
\* transition stays under way until the step that delivers its
\* transition-complete event.
C37_TimerLeavesSlideAlone ==
  [][/\ CommitsSlide => slideRunning'
     /\ (slideRunning /\ pendingCarouselReset # "none" /\ lastNav'.kind # "call")
          => slideRunning']_vars

\* ---------------------------------------------------------------------- C38
\* C38: the index applied when a committed slide completes is one navigator
\* step, in the committed direction, from the index that was current when
\* the slide was committed: the completing step starts from the index, the
\* list length and the direction recorded at the commit.
C38_SlideLandsWhereCommitted ==
  [][SlideCompleted
       => /\ lastNav'.from = lastNav'.req.index
          /\ lastNav'.dir = lastNav'.req.dir
          /\ Len(songs) = lastNav'.req.n]_vars

\* ---------------------------------------------------------------------- C39
\* the index after k manual forward steps from index i, in the current mode
\* with the current list and permutation
RECURSIVE Walk(_, _)
Walk(i, k) ==
  IF k = 0 THEN i
  ELSE ChangeIndexResult(Walk(i, k - 1), "next", FALSE, Len(songs), mode,
                         shuffledIndices, 0).index

ManualCall(nav) == nav.kind = "call" /\ ~nav.auto

\* C39: with N >= 1 tracks, manual navigation from a track is a cyclic walk
\* in every mode: a manual forward step is the first step of a walk that
\* visits every track once in N steps and is back at its start after the
\* N-th, and a manual backward step that follows a manual forward step
\* returns to the index the forward step started from.
C39_ManualWalkIsCyclic ==
  [][(ManualCall(lastNav') /\ Len(songs) >= 1
        /\ currentSongIndex \in 0..(Len(songs) - 1))
       => /\ lastNav'.dir = "next"
               => /\ currentSongIndex' = Walk(currentSongIndex, 1)
                  /\ Walk(currentSongIndex, Len(songs)) = currentSongIndex
                  /\ {Walk(currentSongIndex, k) : k \in 0..(Len(songs) - 1)}
                       = 0..(Len(songs) - 1)
          /\ (ManualCall(lastNav) /\ lastNav.dir = "next" /\ lastNav'.dir = "prev"
                /\ lastNav.from \in 0..(Len(songs) - 1))
               => currentSongIndex' = lastNav.from]_vars

\* a manual backward step in shuffle mode over the wrap of a permutation of
\* three tracks that is not the identity
C39_Witness ==
  /\ ManualCall(lastNav) /\ lastNav.dir = "prev"
  /\ mode = SHUFFLE /\ Len(songs) = 3
  /\ lastNav.from = shuffledIndices[1]
  /\ currentSongIndex = shuffledIndices[3]
  /\ shuffledIndices # <<0, 1, 2>>

\* ---------------------------------------------------------------------- C40
\* C40: a failure of the record store or of the history store never changes
\* playback state.  Whether the save of the list succeeds or not, a folder
\* selection shows the selected list from its first track, paused, and starts
\* a metadata run for it; whether the put succeeds or not, a parsed track is
\* refined in the list, the index and the playing flag stay, and the run goes
\* on with the rest of its tracks; whether the history is saved or not, a
\* flushed segment is appended to the history in memory.
C40_StoreFailuresLeavePlayback ==
  [][/\ lastGesture'.kind = "select" =>
          /\ songs' = NewSongs(selections + 1, lastGesture'.k)
          /\ currentSongIndex' = 0
          /\ ~isPlaying'
          /\ songs' \in metaQueues'
     /\ lastGesture'.kind = "parsed" =>
          /\ songs' = IF lastGesture'.updates
                      THEN MapSong(songs, Refined(Head(lastGesture'.queue)))
                      ELSE songs
          /\ currentSongIndex' = currentSongIndex
          /\ isPlaying' = isPlaying
          /\ Len(lastGesture'.queue) > 1 => Tail(lastGesture'.queue) \in metaQueues'
     /\ history' # history =>
          history' = Append(history, [SegmentLog EXCEPT !.songId = segmentSong])
    ]_vars

\* the save of the selected list has failed, the history could not be saved,
\* and the put of a parsed track has just failed in a run with a track left
C40_Witness ==
  /\ lastGesture.kind = "parsed"
  /\ lastGesture.updates /\ ~lastGesture.put
  /\ Len(lastGesture.queue) > 1
  /\ Len(stored) < Len(songs)
  /\ Len(savedHistory) < Len(history)
====
